---- MODULE Spec2Model ----
(***************************************************************************)
(* A state-machine model of the frame loops of the 2D platformer variants  *)
(* game_full.py, game_ultra.py and game_final.py.                          *)
(*                                                                         *)
(* Lengths are pixels (pygame.Rect holds integers).  Vertical velocities   *)
(* are kept in tenths of a pixel per frame, so 0.5 is 5 and 0.8 is 8; an   *)
(* assignment of a float to a Rect coordinate truncates toward zero.       *)
(* Image sizes come from asset files that are not part of the sources and  *)
(* the worlds of the real game are thousands of pixels long; the model     *)
(* fixes small image sizes and a small world (the definitions under        *)
(* "Model bounds") and keeps the physics constants of the sources.         *)
(***************************************************************************)
EXTENDS Integers, Sequences, FiniteSets, TLC

VARIABLES
    variant,        \* which script is running: "full", "ultra" or "final"
    pc,             \* position inside the frame loop
    keys,           \* the key snapshot the current frame sampled
    player,         \* the player's rect position and kinematic state
    platforms,      \* platform rects of the loaded level, in iteration order
    coins,          \* live coins, in iteration order
    enemies,        \* live enemies, in iteration order
    level_length,   \* level_length (full, ultra) / world_width (final)
    current_level,  \* current_level / level_index
    score,
    lives,
    game_over,
    game_won,       \* game_completed (full, ultra) / game_won (final)
    offset_x,       \* camera offset: offset_x / last_camera_x
    spawn,          \* spawn_x, spawn_y of the loaded level
    rng,            \* the state of the random module (final)
    mid,            \* the body right after the vertical move, before resolution
    ev              \* what the last frame did: contacts, fall-off, level advance

vars == <<variant, pc, keys, player, platforms, coins, enemies, level_length,
          current_level, score, lives, game_over, game_won, offset_x, spawn,
          rng, mid, ev>>

----------------------------------------------------------------------------
(* Model bounds: image sizes (asset files) and the scaled-down world.      *)

PlayerW == 5        \* player frame width
PlayerH == 30       \* player frame height
PlatW == 15         \* platform image width
PlatH == 20         \* platform image height
CoinW == 4          \* coin frame width
CoinH == 10         \* coin frame height
EnemyW == 14        \* enemy image width
EnemyH == 20        \* enemy image height
NumLevels == 2      \* levels generated (30 in the sources)
GenCount == 30      \* levels generate_levels is followed through
XMargin == 5       \* how far outside [0, level_length] the inputs are explored

(* The horizontal layout of the generated levels, scaled down.             *)
ScreenW == 30      \* screen_width (1000)
ULenBase == 45      \* length = 1600 + 250 * i
ULenInc == 5
LenTrim == 20      \* (length - 200) // num_platforms
UStepMin == 20      \* max(180, ...)
UPlatBase == 2      \* num_platforms = 10 + i // 3
X0 == 5            \* x = 100 + j * step
USpawnInset == 0    \* spawn_x = platforms[0].x + 10
FLenBase == 45      \* level_length = 1400 + 300 * i
FLenInc == 5
FStepMin == 20      \* max(220, ...)
FPlatBase == 2      \* num_platforms = 8 + i // 2
FSpawnX == 5        \* Player(100, screen_height - 200)
FinPlatW == 5      \* platform image width (game_final.py)
FinEnemyW == 2      \* enemy image width (game_final.py)
FinWorldPad == 20   \* world_width = max x + 500
FinSpawnInset == 2  \* midbottom = (plat.rect.x + 20, plat.rect.top)
FinDefaultX == 5    \* default spawn midbottom = (50, SCREEN_HEIGHT - 50)
FinCoinBase == 1    \* coin_count = 6 + index // 2
FinEnemyBase == 2   \* enemy_count = 3 + index // 3
EnhPlats == 3       \* platforms kept of each level (game_enhanced.py; 6)
EnhCoins == 2       \* coins kept of each level (game_enhanced.py; 5)
EnhPlayerW == 40    \* player image (game_enhanced.py)
EnhPlayerH == 60
EnhPlatW == 100     \* platform image (game_enhanced.py)
EnhPlatH == 20
EnhCoinW == 20      \* coin image, square (game_enhanced.py)
BasicStepX == 20    \* platforms at x = 200, 400, 600 (game.py)
BasicStartX == 5    \* rect.topleft = (100, SCREEN_HEIGHT - 150) (game.py)
BasicCoinInset == 2 \* Coin(220, 420): 20 right of the platform's left (game.py)
LivesFloor == 1     \* frames are explored while lives > -LivesFloor

----------------------------------------------------------------------------
(* Program constants.                                                      *)

ScreenH == 600          \* screen_height
Gravity == 5           \* vel_y += 0.5
MaxFall == 100         \* if vel_y > 10: vel_y = 10
JumpVel == -120           \* vel_y = -12.0
Walk == 5              \* dx = 5.0
UEnemySpeed == 15       \* Enemy.speed = 1.5
UBaseDrop == 80         \* base_y = screen_height - plat_h - 80
URise == 30             \* y_offset = -((j % 4) * 30)
CoinGap == 10          \* coin y = y - coin_h - 10
FallMargin == 300      \* player.rect.y > screen_height + 300
FEnemySpeed == 20       \* Enemy.speed = 2
FBaseDrop == 40         \* base_y = screen_height - plat_h - 40
FRise == 40             \* y_offset = -((j % 5) * 40)
FSpawnDrop == 200       \* Player(100, screen_height - 200)
StickMax == 3           \* 0 <= delta <= 3
StartLives == 3
EnhScreenW == 1000      \* SCREEN_WIDTH (game_enhanced.py)
EnhScreenH == 600       \* SCREEN_HEIGHT (game_enhanced.py)
EnhGroundDrop == 40     \* (0, SCREEN_HEIGHT - 40)
EnhStartX == 50         \* Player(player_images, (50, SCREEN_HEIGHT - 150))
EnhStartDrop == 150
EnhJumpVel == -150      \* self.vel_y = -15 (game_enhanced.py)
MainScreenW == 800      \* SCREEN_WIDTH (main.py)
MainScreenH == 600      \* SCREEN_HEIGHT (main.py)
MainGroundH == 40       \* Platform(0, SCREEN_HEIGHT - 40, SCREEN_WIDTH, 40)
MainPlayerW == 40       \* pygame.Surface((40, 60))
MainPlayerH == 60
BasicJumpVel == -150    \* self.vel_y = -15 (game.py)
BasicStartDrop == 150   \* rect.topleft = (100, SCREEN_HEIGHT - 150) (game.py)
FinGroundDrop == 40     \* ground at SCREEN_HEIGHT - 40
FinSpawnCut == 50       \* p.rect.y < SCREEN_HEIGHT - 50
FinCoinSeed == 100      \* random.seed(index + 100)
FinEnemySeed == 200     \* random.seed(index + 200)
FinGravity == 8         \* GRAVITY = 0.8
FinSpeed == 5           \* PLAYER_SPEED = 5
FinJumpVel == -160      \* PLAYER_JUMP_VELOCITY = -16
AttackDuration == 15    \* ATTACK_DURATION = 15
FinEnemySpeed == 2      \* ENEMY_SPEED = 2
FinProbe == 5           \* below.y += 5
Knockback == 20         \* self.rect.x -= self.direction * 20


\* The platform positions random.randint may yield for a level, the platform
\* random.choice picks for the coin and the one it picks for the enemy.
FinLayouts ==
    {<<[x |-> 10, y |-> 400], [x |-> 15, y |-> 450], [x |-> 5, y |-> 450]>>}
FinCoinPick == 2
FinEnemyPick == 3

\* Layouts for the body specification: two platforms that overlap each other
\* with different tops, in either order (as levels 18 and 28 of the seeded
\* generator have them).
FinBodyLayouts ==
    {<<[x |-> 7, y |-> 441], [x |-> 5, y |-> 450]>>,
     <<[x |-> 5, y |-> 450], [x |-> 7, y |-> 441]>>}

\* Image widths the knockback specification draws from (player, enemy), the
\* model's own and sizes of the order of the screen's 1000 x 600.
KnockPlayerWs == {PlayerW, 32, 48}
KnockEnemyWs == {FinEnemyW, 40}

\* Image widths the patrol specification draws from.
PatrolPlatWs == {12, 24, 36}
PatrolEnemyWs == {8, 14, 30}

----------------------------------------------------------------------------
(* pygame.Rect arithmetic.                                                 *)

\* int(n / d) for d > 0: the C cast of a float to int truncates toward zero.
Trunc(n, d) == IF n >= 0 THEN n \div d ELSE -((-n) \div d)

\* rect.y += vel_y, rect.x += speed: the float sum is truncated on assignment.
AddTenths(c, v) == Trunc(10 * c + v, 10)

Max(a, b) == IF a >= b THEN a ELSE b
Min(a, b) == IF a <= b THEN a ELSE b

\* Rect.colliderect: positive-area intersection; touching edges do not collide.
Collide(ax, ay, aw, ah, bx, by, bw, bh) ==
    /\ ax < bx + bw
    /\ ax + aw > bx
    /\ ay < by + bh
    /\ ay + ah > by

HitsPlat(p, plat) ==
    Collide(p.x, p.y, PlayerW, PlayerH, plat.x, plat.y, PlatW, PlatH)

HitsCoin(p, c) ==
    Collide(p.x, p.y, PlayerW, PlayerH, c.x, c.y, CoinW, CoinH)

HitsEnemy(p, e) ==
    Collide(p.x, p.y, PlayerW, PlayerH, e.x, e.y, EnemyW, EnemyH)

----------------------------------------------------------------------------
(* Key snapshots.                                                          *)

NoKeys == [l |-> FALSE, r |-> FALSE, j |-> FALSE, f |-> FALSE]

\* The snapshots the model explores: the movement keys and jump.
MoveKeys ==
    {[l |-> a, r |-> b, j |-> c, f |-> FALSE] :
        a \in BOOLEAN, b \in BOOLEAN, c \in BOOLEAN} \
    {k \in [l : BOOLEAN, r : BOOLEAN, j : BOOLEAN, f : BOOLEAN] : k.l /\ k.r}

NoMid == [x |-> 0, y |-> 0, vel_y |-> 0, set |-> FALSE]

\* No event: the value of ev before the first frame.
NoEvent == [hit |-> FALSE, fell |-> FALSE, checked |-> FALSE, loaded |-> FALSE,
            collected |-> 0, killed |-> 0, acted |-> FALSE, restart |-> FALSE]

\* Inputs are explored while the player stays near the level.
InWindow(x) == -XMargin <= x /\ x <= level_length + XMargin

\* The state when the loop is entered: level 0 loaded, three lives, no score.
Start(v, p, plats, cs, es, length, sp, r) ==
    /\ variant = v
    /\ keys = NoKeys
    /\ player = p
    /\ platforms = plats
    /\ coins = cs
    /\ enemies = es
    /\ level_length = length
    /\ current_level = 0
    /\ score = 0
    /\ lives = StartLives
    /\ game_over = FALSE
    /\ game_won = FALSE
    /\ offset_x = 0
    /\ spawn = sp
    /\ rng = r
    /\ mid = NoMid
    /\ ev = NoEvent

\* The body right after the vertical move, as kept in mid.
BodyMid(q) == [x |-> q.x, y |-> q.y, vel_y |-> q.vel_y, set |-> TRUE]

----------------------------------------------------------------------------
(* game_ultra.py                                                           *)

\* generate_levels: one level's platforms.
RECURSIVE UPlatList(_, _, _, _)
UPlatList(j, np, step, base_y) ==
    IF j >= np THEN <<>>
    ELSE <<[x |-> X0 + j * step, y |-> base_y - (j % 4) * URise]>>
         \o UPlatList(j + 1, np, step, base_y)

\* generate_levels: a coin above every 2nd platform.
RECURSIVE UCoinList(_, _, _, _)
UCoinList(j, np, step, base_y) ==
    IF j >= np THEN <<>>
    ELSE (IF j % 2 = 0
          THEN <<[x |-> X0 + j * step + (PlatW - CoinW) \div 2,
                  y |-> base_y - (j % 4) * URise - CoinH - CoinGap]>>
          ELSE <<>>)
         \o UCoinList(j + 1, np, step, base_y)

\* generate_levels: the tuple (enemy_x, y, min_x, max_x) for a platform at
\* (x, y), a platform image plat_w wide and an enemy image enemy_w wide.
UEnemySpot(x, y, plat_w, enemy_w) ==
    [x |-> x + (plat_w - enemy_w) \div 2, py |-> y,
     min_x |-> x, max_x |-> x + plat_w - enemy_w]

\* generate_levels: an enemy on every 4th platform.
RECURSIVE UEnemyList(_, _, _, _, _, _)
UEnemyList(j, np, step, base_y, plat_w, enemy_w) ==
    IF j >= np THEN <<>>
    ELSE (IF j % 4 = 1
          THEN <<UEnemySpot(X0 + j * step, base_y - (j % 4) * URise,
                            plat_w, enemy_w)>>
          ELSE <<>>)
         \o UEnemyList(j + 1, np, step, base_y, plat_w, enemy_w)

\* generate_levels: the enemies of level i for the given image widths.
UGenEnemies(i, plat_w, enemy_w) ==
    LET length == ULenBase + ULenInc * i
        base_y == ScreenH - PlatH - UBaseDrop
        np == UPlatBase + i \div 3
        step == Max(UStepMin, (length - LenTrim) \div np)
    IN  UEnemyList(0, np, step, base_y, plat_w, enemy_w)

\* generate_levels: the data of level i.
UGenLevel(i) ==
    LET length == ULenBase + ULenInc * i
        base_y == ScreenH - PlatH - UBaseDrop
        np == UPlatBase + i \div 3
        step == Max(UStepMin, (length - LenTrim) \div np)
    IN  [platforms |-> UPlatList(0, np, step, base_y),
         coins |-> UCoinList(0, np, step, base_y),
         enemies |-> UGenEnemies(i, PlatW, EnemyW),
         length |-> length]

\* Enemy.__init__: the rect stands on the platform; speed starts at 1.5.
UNewEnemy(d) ==
    [x |-> d.x, y |-> d.py - EnemyH, min_x |-> d.min_x, max_x |-> d.max_x,
     speed |-> UEnemySpeed]

\* main.load_level: the objects of level idx.
ULoadLevel(idx) ==
    LET data == UGenLevel(idx)
    IN  [platforms |-> data.platforms,
         coins |-> data.coins,
         enemies |-> [n \in 1 .. Len(data.enemies) |-> UNewEnemy(data.enemies[n])],
         length |-> data.length]

\* main: spawn_x, spawn_y on the first platform.
USpawn(plats) ==
    [x |-> plats[1].x + USpawnInset, y |-> plats[1].y - PlayerH]

\* Player.__init__
NewPlayer(x, y) ==
    [x |-> x, y |-> y, vel_y |-> 0, on_ground |-> FALSE,
     vel_x |-> 0, dir |-> 1, attacking |-> FALSE, attack_timer |-> 0]

\* Player.handle_input: the horizontal delta.
UInputDx(k) == IF k.r THEN Walk ELSE IF k.l THEN -Walk ELSE 0

\* Faulty variant of UHandleInput: the jump starts at a quarter of the speed.
UHandleInputHop(p, k) ==
    IF k.j /\ p.on_ground
    THEN [p EXCEPT !.vel_y = -((-JumpVel) \div 4), !.on_ground = FALSE]
    ELSE p

\* Player.handle_input: a jump is taken only when on_ground.
UHandleInput(p, k) ==
    IF k.j /\ p.on_ground
    THEN [p EXCEPT !.vel_y = JumpVel, !.on_ground = FALSE]
    ELSE p

\* Player.update: horizontal move resolved against one platform.
UClampX(p, dx, plat) ==
    IF HitsPlat(p, plat)
    THEN IF dx > 0 THEN [p EXCEPT !.x = plat.x - PlayerW]
         ELSE IF dx < 0 THEN [p EXCEPT !.x = plat.x + PlatW]
         ELSE p
    ELSE p

\* Player.update: the horizontal loop over the platforms from index n on.
RECURSIVE UHorizontal(_, _, _, _)
UHorizontal(p, dx, plats, n) ==
    IF n > Len(plats) THEN p
    ELSE UHorizontal(UClampX(p, dx, plats[n]), dx, plats, n + 1)

\* Player.apply_gravity
UApplyGravity(p) ==
    LET v == p.vel_y + Gravity
    IN  [p EXCEPT !.vel_y = IF v > MaxFall THEN MaxFall ELSE v]

\* Player.update: rect.y += vel_y, then on_ground = False.
UMoveY(p) == [p EXCEPT !.y = AddTenths(p.y, p.vel_y), !.on_ground = FALSE]

\* Faulty variant of ULand: a landing stops the fall but does not put the feet
\* on the platform top.
ULandNoSnap(p, plat) ==
    IF HitsPlat(p, plat)
    THEN IF p.vel_y > 0
         THEN [p EXCEPT !.vel_y = 0, !.on_ground = TRUE]
         ELSE IF p.vel_y < 0
              THEN [p EXCEPT !.y = plat.y + PlatH, !.vel_y = 0]
              ELSE p
    ELSE p

\* Player.update, first pass: resolution against one platform.
ULand(p, plat) ==
    IF HitsPlat(p, plat)
    THEN IF p.vel_y > 0
         THEN [p EXCEPT !.y = plat.y - PlayerH, !.vel_y = 0, !.on_ground = TRUE]
         ELSE IF p.vel_y < 0
              THEN [p EXCEPT !.y = plat.y + PlatH, !.vel_y = 0]
              ELSE p
    ELSE p

\* Player.update, first pass: the loop over the platforms from index n on.
RECURSIVE UFirstPass(_, _, _)
UFirstPass(p, plats, n) ==
    IF n > Len(plats) THEN p
    ELSE UFirstPass(ULand(p, plats[n]), plats, n + 1)

\* Second pass: whether the feet are within the threshold above this platform.
StickTo(p, plat) ==
    /\ p.x + PlayerW > plat.x
    /\ p.x < plat.x + PlatW
    /\ 0 <= plat.y - (p.y + PlayerH)
    /\ plat.y - (p.y + PlayerH) <= StickMax

\* Second pass: the loop, which stops at the first platform it snaps to.
RECURSIVE StickLoop(_, _, _)
StickLoop(p, plats, n) ==
    IF n > Len(plats) THEN p
    ELSE IF StickTo(p, plats[n])
         THEN [p EXCEPT !.y = plats[n].y - PlayerH, !.on_ground = TRUE]
         ELSE StickLoop(p, plats, n + 1)

\* Second pass: runs when no landing happened and abs(vel_y) < 1e-3.
USecondPass(p, plats) ==
    IF ~p.on_ground /\ p.vel_y = 0 THEN StickLoop(p, plats, 1) ELSE p

\* Player.update up to the vertical move (horizontal pass, gravity, move).
UMoved(p, plats, dx) ==
    UMoveY(UApplyGravity(UHorizontal([p EXCEPT !.x = p.x + dx], dx, plats, 1)))

\* Player.update
UUpdate(p, plats, dx) == USecondPass(UFirstPass(UMoved(p, plats, dx), plats, 1), plats)

\* Faulty variant of UEnemyUpdate: the enemy is clamped at the end of its
\* range but does not turn around.
UEnemyUpdateNoTurn(e) ==
    LET x1 == AddTenths(e.x, e.speed)
    IN  IF x1 < e.min_x \/ x1 > e.max_x
        THEN [e EXCEPT !.x = Max(Min(x1, e.max_x), e.min_x)]
        ELSE [e EXCEPT !.x = x1]

\* Enemy.update
UEnemyUpdate(e) ==
    LET x1 == AddTenths(e.x, e.speed)
    IN  IF x1 < e.min_x \/ x1 > e.max_x
        THEN [e EXCEPT !.speed = -e.speed,
                       !.x = Max(Min(x1, e.max_x), e.min_x)]
        ELSE [e EXCEPT !.x = x1]

\* Player.reset_position
UResetPosition(p, x, y) ==
    [p EXCEPT !.x = x, !.y = y, !.vel_y = 0, !.on_ground = TRUE]

\* main: the coins left after the collection loop.
RECURSIVE CoinsLeft(_, _, _)
CoinsLeft(p, cs, n) ==
    IF n > Len(cs) THEN <<>>
    ELSE (IF HitsCoin(p, cs[n]) THEN <<>> ELSE <<cs[n]>>) \o CoinsLeft(p, cs, n + 1)

\* main: the first enemy the player's rect overlaps (0 when none).
RECURSIVE FirstHit(_, _, _)
FirstHit(p, es, n) ==
    IF n > Len(es) THEN 0
    ELSE IF HitsEnemy(p, es[n]) THEN n ELSE FirstHit(p, es, n + 1)

\* Faulty variant of ULivesAfterHit: the loop does not break, every overlapped
\* enemy costs a life.
ULivesAfterHitAll(p, es, l) ==
    l - Cardinality({n \in 1 .. Len(es) : HitsEnemy(p, es[n])})

\* main: lives after the enemy collision loop (it breaks at the first hit).
ULivesAfterHit(p, es, l) == IF FirstHit(p, es, 1) > 0 THEN l - 1 ELSE l

\* main: the camera offset for a player x.
UCamera(px, length) ==
    LET o == px - ScreenW \div 2
        o1 == IF o < 0 THEN 0 ELSE o
        max_offset == length - ScreenW
    IN  IF o1 > max_offset THEN max_offset ELSE o1

Active == ~game_over /\ ~game_won

\* Faulty variant of UAdvance: the level ends while one coin is still live.
UAdvanceEarly(g) ==
    IF Len(g.coins) > 1 THEN [g EXCEPT !.ev.checked = FALSE, !.ev.loaded = FALSE]
    ELSE IF g.level + 1 >= NumLevels
         THEN [g EXCEPT !.level = g.level + 1, !.game_won = TRUE,
                        !.ev.checked = TRUE, !.ev.loaded = FALSE]
         ELSE [g EXCEPT !.level = g.level + 1,
                        !.platforms = ULoadLevel(g.level + 1).platforms,
                        !.coins = ULoadLevel(g.level + 1).coins,
                        !.enemies = ULoadLevel(g.level + 1).enemies,
                        !.length = ULoadLevel(g.level + 1).length,
                        !.spawn = USpawn(ULoadLevel(g.level + 1).platforms),
                        !.player = UResetPosition(g.player,
                            USpawn(ULoadLevel(g.level + 1).platforms).x,
                            USpawn(ULoadLevel(g.level + 1).platforms).y),
                        !.offset = 0,
                        !.ev.checked = TRUE, !.ev.loaded = TRUE]

\* main: level advance when no coin is left ("if not coins").
\* g holds the loop's variables after the contact checks.
UAdvance(g) ==
    LET done == Len(g.coins) = 0
        lvl1 == IF done THEN g.level + 1 ELSE g.level
        load == done /\ lvl1 < NumLevels
    IN  IF ~done THEN [g EXCEPT !.ev.checked = FALSE, !.ev.loaded = FALSE]
        ELSE IF ~load
             THEN [g EXCEPT !.level = lvl1, !.game_won = TRUE,
                            !.ev.checked = TRUE, !.ev.loaded = FALSE]
             ELSE [g EXCEPT !.level = lvl1,
                            !.platforms = ULoadLevel(lvl1).platforms,
                            !.coins = ULoadLevel(lvl1).coins,
                            !.enemies = ULoadLevel(lvl1).enemies,
                            !.length = ULoadLevel(lvl1).length,
                            !.spawn = USpawn(ULoadLevel(lvl1).platforms),
                            !.player = UResetPosition(g.player,
                                USpawn(ULoadLevel(lvl1).platforms).x,
                                USpawn(ULoadLevel(lvl1).platforms).y),
                            !.offset = 0,
                            !.ev.checked = TRUE, !.ev.loaded = TRUE]

\* main: coin collection, enemy collision and the lives check.
UContacts(g) ==
    LET left == CoinsLeft(g.player, g.coins, 1)
        hit == FirstHit(g.player, g.enemies, 1) > 0
        l1 == ULivesAfterHit(g.player, g.enemies, g.lives)
    IN  [g EXCEPT !.coins = left,
                  !.score = g.score + (Len(g.coins) - Len(left)),
                  !.lives = l1,
                  !.player = IF hit THEN UResetPosition(g.player, g.spawn.x, g.spawn.y)
                             ELSE g.player,
                  !.offset = IF hit THEN 0 ELSE g.offset,
                  !.game_over = (g.game_over \/ l1 <= 0),
                  !.ev.hit = hit,
                  !.ev.collected = Len(g.coins) - Len(left)]

\* Faulty variant of UFallOff: the fall costs a life but "if lives <= 0" is
\* missing.
UFallOffKeepsPlaying(g) ==
    IF g.player.y > ScreenH + FallMargin
    THEN [g EXCEPT !.lives = g.lives - 1,
                   !.player = UResetPosition(g.player, g.spawn.x, g.spawn.y),
                   !.offset = 0,
                   !.ev.fell = TRUE]
    ELSE [g EXCEPT !.ev.fell = FALSE]

\* main: "reset if fall".
UFallOff(g) ==
    IF g.player.y > ScreenH + FallMargin
    THEN [g EXCEPT !.lives = g.lives - 1,
                   !.player = UResetPosition(g.player, g.spawn.x, g.spawn.y),
                   !.offset = 0,
                   !.game_over = (g.game_over \/ g.lives - 1 <= 0),
                   !.ev.fell = TRUE]
    ELSE [g EXCEPT !.ev.fell = FALSE]

\* main: "update camera".
UCameraStep(g) == [g EXCEPT !.offset = UCamera(g.player.x, g.length)]

\* The loop's variables as one record.
Game ==
    [player |-> player, platforms |-> platforms, coins |-> coins,
     enemies |-> enemies, length |-> level_length, level |-> current_level,
     score |-> score, lives |-> lives, game_over |-> game_over,
     game_won |-> game_won, spawn |-> spawn, offset |-> offset_x,
     ev |-> [NoEvent EXCEPT !.acted = TRUE]]

\* The loop's variables take the values the frame computed.
Commit(r) ==
    /\ player' = r.player
    /\ platforms' = r.platforms
    /\ coins' = r.coins
    /\ enemies' = r.enemies
    /\ level_length' = r.length
    /\ current_level' = r.level
    /\ score' = r.score
    /\ lives' = r.lives
    /\ game_over' = r.game_over
    /\ game_won' = r.game_won
    /\ spawn' = r.spawn
    /\ offset_x' = r.offset
    /\ ev' = r.ev

\* main: the state before the first iteration of the loop.
UStart ==
    LET lv == ULoadLevel(0)
        sp == USpawn(lv.platforms)
    IN  Start("ultra", NewPlayer(sp.x, sp.y), lv.platforms, lv.coins,
              lv.enemies, lv.length, sp, <<>>)

InitUltra == pc = "frame" /\ UStart

\* main: one iteration of the loop while the game is active.
UFrame ==
    /\ variant = "ultra"
    /\ pc \in {"frame", "idle"}
    /\ Active
    /\ \E k \in MoveKeys :
      \E g1 \in {[Game EXCEPT !.player = UUpdate(UHandleInput(player, k),
                                                   platforms, UInputDx(k)),
                                !.enemies = [n \in 1 .. Len(enemies) |->
                                                UEnemyUpdate(enemies[n])]]} :
      \E g2 \in {UContacts(g1)} :
      \E g3 \in {UAdvance(g2)} :
      \E g4 \in {UFallOff(g3)} :
      \E r \in {UCameraStep(g4)} :
            /\ InWindow(player.x + UInputDx(k))
            /\ Commit(r)
    /\ pc' = "frame"
    /\ UNCHANGED <<variant, keys, rng, mid>>

----------------------------------------------------------------------------
(* game_full.py                                                            *)

\* generate_levels: one level's platforms.
RECURSIVE FPlatList(_, _, _, _)
FPlatList(j, np, step, base_y) ==
    IF j >= np THEN <<>>
    ELSE <<[x |-> X0 + j * step, y |-> base_y - (j % 5) * FRise]>>
         \o FPlatList(j + 1, np, step, base_y)

\* generate_levels: a coin on every second platform.
RECURSIVE FCoinList(_, _, _, _)
FCoinList(j, np, step, base_y) ==
    IF j >= np THEN <<>>
    ELSE (IF j % 2 = 0
          THEN <<[x |-> X0 + j * step + (PlatW - CoinW) \div 2,
                  y |-> base_y - (j % 5) * FRise - CoinH - CoinGap]>>
          ELSE <<>>)
         \o FCoinList(j + 1, np, step, base_y)

\* generate_levels: the tuple (enemy_x, y, min_x, max_x) for a platform at
\* (x, y), a platform image plat_w wide and an enemy image enemy_w wide.
FEnemySpot(x, y, plat_w, enemy_w) ==
    [x |-> x + (plat_w - enemy_w) \div 2, py |-> y,
     min_x |-> x, max_x |-> x + plat_w - enemy_w]

\* Faulty variant of FEnemyList: an enemy on every fourth platform, as in
\* game_ultra.py.
RECURSIVE FEnemyListFourth(_, _, _, _, _, _)
FEnemyListFourth(j, np, step, base_y, plat_w, enemy_w) ==
    IF j >= np THEN <<>>
    ELSE (IF j % 4 = 1
          THEN <<FEnemySpot(X0 + j * step, base_y - (j % 5) * FRise,
                            plat_w, enemy_w)>>
          ELSE <<>>)
         \o FEnemyListFourth(j + 1, np, step, base_y, plat_w, enemy_w)

\* generate_levels: an enemy on every third platform.
RECURSIVE FEnemyList(_, _, _, _, _, _)
FEnemyList(j, np, step, base_y, plat_w, enemy_w) ==
    IF j >= np THEN <<>>
    ELSE (IF j % 3 = 1
          THEN <<FEnemySpot(X0 + j * step, base_y - (j % 5) * FRise,
                            plat_w, enemy_w)>>
          ELSE <<>>)
         \o FEnemyList(j + 1, np, step, base_y, plat_w, enemy_w)

\* generate_levels: the enemies of level i for the given image widths.
FGenEnemies(i, plat_w, enemy_w) ==
    LET length == FLenBase + FLenInc * i
        base_y == ScreenH - PlatH - FBaseDrop
        np == FPlatBase + i \div 2
        step == Max(FStepMin, (length - LenTrim) \div np)
    IN  FEnemyList(0, np, step, base_y, plat_w, enemy_w)

\* generate_levels: the data of level i.
FGenLevel(i) ==
    LET length == FLenBase + FLenInc * i
        base_y == ScreenH - PlatH - FBaseDrop
        np == FPlatBase + i \div 2
        step == Max(FStepMin, (length - LenTrim) \div np)
    IN  [platforms |-> FPlatList(0, np, step, base_y),
         coins |-> FCoinList(0, np, step, base_y),
         enemies |-> FGenEnemies(i, PlatW, EnemyW),
         length |-> length]

\* Enemy.__init__: speed starts at 2.
FNewEnemy(d) ==
    [x |-> d.x, y |-> d.py - EnemyH, min_x |-> d.min_x, max_x |-> d.max_x,
     speed |-> FEnemySpeed]

\* main.load_level
FLoadLevel(idx) ==
    LET data == FGenLevel(idx)
    IN  [platforms |-> data.platforms,
         coins |-> data.coins,
         enemies |-> [n \in 1 .. Len(data.enemies) |-> FNewEnemy(data.enemies[n])],
         length |-> data.length]

\* main: the fixed start position (100, screen_height - 200).
FSpawn == [x |-> FSpawnX, y |-> ScreenH - FSpawnDrop]

\* Player.handle_input: the horizontal delta.
FInputDx(k) == IF k.r THEN Walk ELSE IF k.l THEN -Walk ELSE 0

\* Player.handle_input: a jump is taken only when on_ground.
FHandleInput(p, k) ==
    IF k.j /\ p.on_ground
    THEN [p EXCEPT !.vel_y = JumpVel, !.on_ground = FALSE]
    ELSE p

\* main: the horizontal move, clamped to the world boundaries.
FMoveX(p, dx, length) ==
    LET x1 == p.x + dx
        x2 == IF x1 < 0 THEN 0 ELSE x1
    IN  [p EXCEPT !.x = IF x2 > length - PlayerW THEN length - PlayerW ELSE x2]

\* Player.update: gravity, capped at 10.
FApplyGravity(p) ==
    LET v == p.vel_y + Gravity
    IN  [p EXCEPT !.vel_y = IF v > MaxFall THEN MaxFall ELSE v]

\* Player.update: rect.y += vel_y, then on_ground = False.
FMoveY(p) == [p EXCEPT !.y = AddTenths(p.y, p.vel_y), !.on_ground = FALSE]

\* Player.update: resolution against one platform.  The tests compare the
\* float rect.bottom - vel_y (rect.top - vel_y) with the platform edge.
FLand(p, plat) ==
    IF HitsPlat(p, plat)
    THEN IF p.vel_y > 0 /\ 10 * (p.y + PlayerH) - p.vel_y <= 10 * plat.y
         THEN [p EXCEPT !.y = plat.y - PlayerH, !.vel_y = 0, !.on_ground = TRUE]
         ELSE IF p.vel_y < 0 /\ 10 * p.y - p.vel_y >= 10 * (plat.y + PlatH)
              THEN [p EXCEPT !.y = plat.y + PlatH, !.vel_y = 0]
              ELSE p
    ELSE p

\* Player.update: the loop over the platforms from index n on.
RECURSIVE FCollisions(_, _, _)
FCollisions(p, plats, n) ==
    IF n > Len(plats) THEN p
    ELSE FCollisions(FLand(p, plats[n]), plats, n + 1)

\* Player.update
FUpdate(p, plats) == FCollisions(FMoveY(FApplyGravity(p)), plats, 1)

\* Faulty variant of FEnemyUpdate: the enemy turns around but is not clamped.
FEnemyUpdateNoClamp(e) ==
    LET x1 == AddTenths(e.x, e.speed)
    IN  IF x1 < e.min_x \/ x1 > e.max_x
        THEN [e EXCEPT !.speed = -e.speed, !.x = x1]
        ELSE [e EXCEPT !.x = x1]

\* Enemy.update
FEnemyUpdate(e) ==
    LET x1 == AddTenths(e.x, e.speed)
    IN  IF x1 < e.min_x \/ x1 > e.max_x
        THEN [e EXCEPT !.speed = -e.speed,
                       !.x = Max(Min(x1, e.max_x), e.min_x)]
        ELSE [e EXCEPT !.x = x1]

\* Player.reset_position
FResetPosition(p, x, y) ==
    [p EXCEPT !.x = x, !.y = y, !.vel_y = 0, !.on_ground = FALSE]

\* main: lives after the enemy collision loop (it breaks at the first hit).
FLivesAfterHit(p, es, l) == IF FirstHit(p, es, 1) > 0 THEN l - 1 ELSE l

\* Faulty variant of FContacts: a collected coin is counted twice.
FContactsTwice(g) ==
    LET left == CoinsLeft(g.player, g.coins, 1)
        hit == FirstHit(g.player, g.enemies, 1) > 0
        l1 == FLivesAfterHit(g.player, g.enemies, g.lives)
    IN  [g EXCEPT !.coins = left,
                  !.score = g.score + 2 * (Len(g.coins) - Len(left)),
                  !.lives = l1,
                  !.player = IF hit THEN FResetPosition(g.player, FSpawn.x, FSpawn.y)
                             ELSE g.player,
                  !.offset = IF hit THEN 0 ELSE g.offset,
                  !.game_over = (g.game_over \/ l1 <= 0),
                  !.ev.hit = hit,
                  !.ev.collected = Len(g.coins) - Len(left)]

\* main: coin collection, enemy collision and the lives check.
FContacts(g) ==
    LET left == CoinsLeft(g.player, g.coins, 1)
        hit == FirstHit(g.player, g.enemies, 1) > 0
        l1 == FLivesAfterHit(g.player, g.enemies, g.lives)
    IN  [g EXCEPT !.coins = left,
                  !.score = g.score + (Len(g.coins) - Len(left)),
                  !.lives = l1,
                  !.player = IF hit THEN FResetPosition(g.player, FSpawn.x, FSpawn.y)
                             ELSE g.player,
                  !.offset = IF hit THEN 0 ELSE g.offset,
                  !.game_over = (g.game_over \/ l1 <= 0),
                  !.ev.hit = hit,
                  !.ev.collected = Len(g.coins) - Len(left)]

\* Faulty variant of FAdvance: the loss of the last life also ends the level.
FAdvanceOnLastLife(g) ==
    LET done == Len(g.coins) = 0 \/ g.lives <= 0
        lvl1 == IF done THEN g.level + 1 ELSE g.level
        load == done /\ lvl1 < NumLevels
    IN  IF ~done THEN [g EXCEPT !.ev.checked = FALSE, !.ev.loaded = FALSE]
        ELSE IF ~load
             THEN [g EXCEPT !.level = lvl1, !.game_won = TRUE,
                            !.ev.checked = TRUE, !.ev.loaded = FALSE]
             ELSE [g EXCEPT !.level = lvl1,
                            !.platforms = FLoadLevel(lvl1).platforms,
                            !.coins = FLoadLevel(lvl1).coins,
                            !.enemies = FLoadLevel(lvl1).enemies,
                            !.length = FLoadLevel(lvl1).length,
                            !.player = FResetPosition(g.player, FSpawn.x, FSpawn.y),
                            !.offset = 0,
                            !.ev.checked = TRUE, !.ev.loaded = TRUE]

\* main: "check if all coins collected".
FAdvance(g) ==
    LET done == Len(g.coins) = 0
        lvl1 == IF done THEN g.level + 1 ELSE g.level
        load == done /\ lvl1 < NumLevels
    IN  IF ~done THEN [g EXCEPT !.ev.checked = FALSE, !.ev.loaded = FALSE]
        ELSE IF ~load
             THEN [g EXCEPT !.level = lvl1, !.game_won = TRUE,
                            !.ev.checked = TRUE, !.ev.loaded = FALSE]
             ELSE [g EXCEPT !.level = lvl1,
                            !.platforms = FLoadLevel(lvl1).platforms,
                            !.coins = FLoadLevel(lvl1).coins,
                            !.enemies = FLoadLevel(lvl1).enemies,
                            !.length = FLoadLevel(lvl1).length,
                            !.player = FResetPosition(g.player, FSpawn.x, FSpawn.y),
                            !.offset = 0,
                            !.ev.checked = TRUE, !.ev.loaded = TRUE]

\* Faulty variant of FFallOff: the fall costs a life but the player is not put
\* back.
FFallOffNoRespawn(g) ==
    IF g.player.y > ScreenH + FallMargin
    THEN [g EXCEPT !.lives = g.lives - 1,
                   !.offset = 0,
                   !.game_over = (g.game_over \/ g.lives - 1 <= 0),
                   !.ev.fell = TRUE]
    ELSE [g EXCEPT !.ev.fell = FALSE]

\* main: "reset if fall".
FFallOff(g) ==
    IF g.player.y > ScreenH + FallMargin
    THEN [g EXCEPT !.lives = g.lives - 1,
                   !.player = FResetPosition(g.player, FSpawn.x, FSpawn.y),
                   !.offset = 0,
                   !.game_over = (g.game_over \/ g.lives - 1 <= 0),
                   !.ev.fell = TRUE]
    ELSE [g EXCEPT !.ev.fell = FALSE]

\* main: the camera offset for a player x.
FCamera(px, length) ==
    LET o == px - ScreenW \div 2
        o1 == IF o < 0 THEN 0 ELSE o
        max_offset == length - ScreenW
    IN  IF o1 > max_offset THEN max_offset ELSE o1

\* main: "update camera offset".
FCameraStep(g) == [g EXCEPT !.offset = FCamera(g.player.x, g.length)]

\* main: the state before the first iteration of the loop.
FStart ==
    LET lv == FLoadLevel(0)
    IN  Start("full", NewPlayer(FSpawn.x, FSpawn.y), lv.platforms, lv.coins,
              lv.enemies, lv.length, FSpawn, <<>>)

InitFull == pc = "frame" /\ FStart

\* main: one iteration of the loop while the game is active.
FFrame ==
    /\ variant = "full"
    /\ pc \in {"frame", "idle"}
    /\ Active
    /\ \E k \in MoveKeys :
      \E g1 \in {[Game EXCEPT !.player = FUpdate(FMoveX(FHandleInput(player, k),
                                                        FInputDx(k), level_length),
                                                 platforms),
                              !.enemies = [n \in 1 .. Len(enemies) |->
                                              FEnemyUpdate(enemies[n])]]} :
      \E g2 \in {FContacts(g1)} :
      \E g3 \in {FAdvance(g2)} :
      \E g4 \in {FFallOff(g3)} :
      \E r \in {FCameraStep(g4)} :
            /\ Commit(r)
    /\ pc' = "frame"
    /\ UNCHANGED <<variant, keys, rng, mid>>

----------------------------------------------------------------------------
(* game_final.py                                                           *)

\* Platform rect at ground height: "if y >= SCREEN_HEIGHT - 40".
FinGroundY == ScreenH - FinGroundDrop

FinHitsPlat(p, plat) ==
    Collide(p.x, p.y, PlayerW, PlayerH, plat.x, plat.y, FinPlatW, PlatH)

FinHitsEnemy(p, e) ==
    Collide(p.x, p.y, PlayerW, PlayerH, e.x, e.y, FinEnemyW, EnemyH)

\* The random module: r.stream[s] lists the values the generator yields after
\* random.seed(s), r.seed is the last seed and r.used the number of values
\* drawn since.  Beyond the values listed a stream is read cyclically.
RandomSeed(r, s) == [r EXCEPT !.seed = s, !.used = 0]

\* The n-th value drawn from now on.
RandomAt(r, n) ==
    r.stream[r.seed][((r.used + n - 1) % Len(r.stream[r.seed])) + 1]

\* The generator after n values were drawn.
RandomSkip(r, n) == [r EXCEPT !.used = r.used + n]

\* random.choice(list) for the drawn value v.
Choice(list, v) == list[((v - 1) % Len(list)) + 1]

\* generate_levels: the ground entry followed by the randomly placed
\* platforms, x then y drawn for each after random.seed(i).
FinGenLevel(r, i) ==
    LET s == RandomSeed(r, i)
    IN  <<[x |-> 0, y |-> FinGroundY]>>
        \o [p \in 1 .. Len(r.stream[i]) \div 2 |->
               [x |-> RandomAt(s, 2 * p - 1), y |-> RandomAt(s, 2 * p)]]

\* max([x for x, _ in level_platforms])
RECURSIVE FinMaxX(_, _)
FinMaxX(lp, n) ==
    IF n > Len(lp) THEN 0 ELSE Max(lp[n].x, FinMaxX(lp, n + 1))

\* load_level: the ground tiled from tx on, "range(0, world_width, plat_w)".
RECURSIVE FinTiles(_, _, _)
FinTiles(tx, ww, y) ==
    IF tx >= ww THEN <<>>
    ELSE <<[x |-> tx, y |-> y]>> \o FinTiles(tx + FinPlatW, ww, y)

\* load_level: "Spawn platforms", from entry n of the level data on.
RECURSIVE FinPlatforms(_, _, _)
FinPlatforms(lp, ww, n) ==
    IF n > Len(lp) THEN <<>>
    ELSE (IF lp[n].y >= ScreenH - FinGroundDrop
          THEN FinTiles(0, ww, lp[n].y)
          ELSE <<lp[n]>>)
         \o FinPlatforms(lp, ww, n + 1)

\* load_level: [p for p in self.platforms if p.rect.y < SCREEN_HEIGHT - 50]
FinAbove(plat) == plat.y < ScreenH - FinSpawnCut
FinPlatformList(plats) == SelectSeq(plats, FinAbove)

\* Coin.__init__: get_rect(midbottom=(plat.rect.centerx, plat.rect.top))
FinNewCoin(plat) ==
    [x |-> plat.x + FinPlatW \div 2 - CoinW \div 2, y |-> plat.y - CoinH]

\* Enemy.__init__: get_rect(midbottom=(ex, ey)), a random direction.
FinNewEnemy(plat, d) ==
    [x |-> plat.x + FinPlatW \div 2 - FinEnemyW \div 2, y |-> plat.y - EnemyH,
     dir |-> d]

\* load_level: the platform "spawn_plats.sort(key=(y, x))" puts first.
FinHighest(pl) ==
    CHOOSE p \in {pl[n] : n \in 1 .. Len(pl)} :
        \A n \in 1 .. Len(pl) :
            p.y < pl[n].y \/ (p.y = pl[n].y /\ p.x <= pl[n].x)

\* rect.midbottom = (plat.rect.x + 20, plat.rect.top)
FinStandOn(plat) ==
    [x |-> plat.x + FinSpawnInset - PlayerW \div 2, y |-> plat.y - PlayerH]

\* Faulty variant of FinLoadLevel: the coins and the enemies are drawn without
\* seeding, from wherever the generator stands.
FinLoadLevelUnseeded(r, idx) ==
    LET lp == FinGenLevel(r, idx)
        ww == FinMaxX(lp, 1) + FinWorldPad
        plats == FinPlatforms(lp, ww, 1)
        pl == FinPlatformList(plats)
        nc == Min(FinCoinBase + idx \div 2, Len(pl))
        ne == Min(FinEnemyBase + idx \div 3, Len(pl))
        cs == r
        es == RandomSkip(cs, nc)
    IN  [platforms |-> plats,
         coins |-> [n \in 1 .. nc |-> FinNewCoin(Choice(pl, RandomAt(cs, n)))],
         enemies |-> [n \in 1 .. ne |->
                         FinNewEnemy(Choice(pl, RandomAt(es, 2 * n - 1)),
                                     Choice(<<-1, 1>>, RandomAt(es, 2 * n)))],
         length |-> ww,
         spawn |-> IF Len(pl) > 0 THEN FinStandOn(FinHighest(pl))
                   ELSE [x |-> FinDefaultX - PlayerW \div 2,
                         y |-> ScreenH - FinSpawnCut - PlayerH],
         random |-> RandomSkip(es, 2 * ne)]

\* load_level: the objects of level idx and the generator left behind; the
\* picks and directions are drawn from r after random.seed.
FinLoadLevel(r, idx) ==
    LET lp == FinGenLevel(r, idx)
        ww == FinMaxX(lp, 1) + FinWorldPad
        plats == FinPlatforms(lp, ww, 1)
        pl == FinPlatformList(plats)
        nc == Min(FinCoinBase + idx \div 2, Len(pl))
        ne == Min(FinEnemyBase + idx \div 3, Len(pl))
        cs == RandomSeed(r, idx + FinCoinSeed)
        es == RandomSeed(RandomSkip(cs, nc), idx + FinEnemySeed)
    IN  [platforms |-> plats,
         coins |-> [n \in 1 .. nc |-> FinNewCoin(Choice(pl, RandomAt(cs, n)))],
         enemies |-> [n \in 1 .. ne |->
                         FinNewEnemy(Choice(pl, RandomAt(es, 2 * n - 1)),
                                     Choice(<<-1, 1>>, RandomAt(es, 2 * n)))],
         length |-> ww,
         spawn |-> IF Len(pl) > 0 THEN FinStandOn(FinHighest(pl))
                   ELSE [x |-> FinDefaultX - PlayerW \div 2,
                         y |-> ScreenH - FinSpawnCut - PlayerH],
         random |-> RandomSkip(es, 2 * ne)]

\* load_level: the player is placed and its vertical speed cleared.
FinPlace(p, sp, haveplat) ==
    IF haveplat THEN [p EXCEPT !.x = sp.x, !.y = sp.y, !.vel_y = 0]
    ELSE [p EXCEPT !.x = sp.x, !.y = sp.y]

\* Faulty variant of FinLoaded: the load keeps the score and the lives.
FinLoadedKeepsScore(g, r, idx) ==
    LET lv == FinLoadLevel(r, idx)
    IN  [g EXCEPT !.platforms = lv.platforms,
                  !.coins = lv.coins,
                  !.enemies = lv.enemies,
                  !.length = lv.length,
                  !.spawn = lv.spawn,
                  !.random = lv.random,
                  !.player = FinPlace(g.player, lv.spawn,
                                      Len(FinPlatformList(lv.platforms)) > 0),
                  !.game_over = FALSE,
                  !.game_won = FALSE]

\* load_level applied to the loop's variables g.
FinLoaded(g, r, idx) ==
    LET lv == FinLoadLevel(r, idx)
    IN  [g EXCEPT !.platforms = lv.platforms,
                  !.coins = lv.coins,
                  !.enemies = lv.enemies,
                  !.length = lv.length,
                  !.spawn = lv.spawn,
                  !.random = lv.random,
                  !.player = FinPlace(g.player, lv.spawn,
                                      Len(FinPlatformList(lv.platforms)) > 0),
                  !.score = 0,
                  !.lives = StartLives,
                  !.game_over = FALSE,
                  !.game_won = FALSE]

\* Faulty variant of FinHandleInput: an attack starts on the ground only.
FinHandleInputOnGround(p, k) ==
    IF p.attacking THEN p
    ELSE LET vx == IF k.r THEN FinSpeed ELSE IF k.l THEN -FinSpeed ELSE 0
             d == IF k.r THEN 1 ELSE IF k.l THEN -1 ELSE p.dir
             jump == k.j /\ p.on_ground
             hit == k.f /\ p.on_ground
         IN  [p EXCEPT !.vel_x = vx,
                       !.dir = d,
                       !.vel_y = IF jump THEN FinJumpVel ELSE p.vel_y,
                       !.on_ground = IF jump THEN FALSE ELSE p.on_ground,
                       !.attacking = hit,
                       !.attack_timer = IF hit THEN AttackDuration
                                        ELSE p.attack_timer]

\* Faulty variant of FinHandleInput: F pressed during an attack restarts the
\* attack timer.
FinHandleInputRefresh(p, k) ==
    IF p.attacking
    THEN [p EXCEPT !.attack_timer = IF k.f THEN AttackDuration ELSE p.attack_timer]
    ELSE LET vx == IF k.r THEN FinSpeed ELSE IF k.l THEN -FinSpeed ELSE 0
             d == IF k.r THEN 1 ELSE IF k.l THEN -1 ELSE p.dir
             jump == k.j /\ p.on_ground
         IN  [p EXCEPT !.vel_x = vx,
                       !.dir = d,
                       !.vel_y = IF jump THEN FinJumpVel ELSE p.vel_y,
                       !.on_ground = IF jump THEN FALSE ELSE p.on_ground,
                       !.attacking = k.f,
                       !.attack_timer = IF k.f THEN AttackDuration
                                        ELSE p.attack_timer]

\* Player.handle_input
FinHandleInput(p, k) ==
    IF p.attacking THEN p
    ELSE LET vx == IF k.r THEN FinSpeed ELSE IF k.l THEN -FinSpeed ELSE 0
             d == IF k.r THEN 1 ELSE IF k.l THEN -1 ELSE p.dir
             jump == k.j /\ p.on_ground
         IN  [p EXCEPT !.vel_x = vx,
                       !.dir = d,
                       !.vel_y = IF jump THEN FinJumpVel ELSE p.vel_y,
                       !.on_ground = IF jump THEN FALSE ELSE p.on_ground,
                       !.attacking = k.f,
                       !.attack_timer = IF k.f THEN AttackDuration
                                        ELSE p.attack_timer]

\* Player.update: "self.vel_y += GRAVITY"
FinGravityStep(p) == [p EXCEPT !.vel_y = p.vel_y + FinGravity]

\* spritecollide(self, self.platforms, False): indices of the overlapped
\* platforms, in group order, computed once before the loop runs.
FinOverlapped(p, plats) ==
    SelectSeq([n \in 1 .. Len(plats) |-> n],
              LAMBDA n : FinHitsPlat(p, plats[n]))

\* handle_horizontal_collisions: the loop over the collision list.
RECURSIVE FinPushOut(_, _, _, _)
FinPushOut(p, plats, hits, n) ==
    IF n > Len(hits) THEN p
    ELSE FinPushOut(
            IF p.vel_x > 0 THEN [p EXCEPT !.x = plats[hits[n]].x - PlayerW]
            ELSE IF p.vel_x < 0 THEN [p EXCEPT !.x = plats[hits[n]].x + FinPlatW]
            ELSE p,
            plats, hits, n + 1)

\* Player.update: "rect.x += vel_x" and handle_horizontal_collisions.
FinHorizontal(p, plats) ==
    LET q == [p EXCEPT !.x = p.x + p.vel_x]
    IN  FinPushOut(q, plats, FinOverlapped(q, plats), 1)

\* Player.update: "rect.y += vel_y"
FinMoveY(p) == [p EXCEPT !.y = AddTenths(p.y, p.vel_y)]

\* "self.vel_y > 0" on a velocity held in tenths.  A velocity of 0 tenths
\* right after gravity is the float -16 + 20 * 0.8 = 5.1e-15, which is > 0;
\* the velocities the code assigns (0 after a snap) are exact.
FinFalling(p, fresh) == p.vel_y > 0 \/ (fresh /\ p.vel_y = 0)

\* Faulty variant of FinLand: the landing branch forgets "self.vel_y = 0".
FinLandKeepsSpeed(p, plat, fresh) ==
    IF FinFalling(p, fresh)
    THEN [p EXCEPT !.y = plat.y - PlayerH, !.on_ground = TRUE]
    ELSE IF p.vel_y < 0
         THEN [p EXCEPT !.y = plat.y + PlatH, !.vel_y = 0]
         ELSE p

\* handle_vertical_collisions, first pass: resolution against one platform
\* of the collision list.  fresh: vel_y is still the value gravity produced.
FinLand(p, plat, fresh) ==
    IF FinFalling(p, fresh)
    THEN [p EXCEPT !.y = plat.y - PlayerH, !.vel_y = 0, !.on_ground = TRUE]
    ELSE IF p.vel_y < 0
         THEN [p EXCEPT !.y = plat.y + PlatH, !.vel_y = 0]
         ELSE p

\* handle_vertical_collisions, first pass: the loop over the collision list.
RECURSIVE FinFirstPass(_, _, _, _)
FinFirstPass(p, plats, hits, n) ==
    IF n > Len(hits) THEN p
    ELSE FinFirstPass(FinLand(p, plats[hits[n]], n = 1), plats, hits, n + 1)

\* Second pass: whether the feet are within the threshold above this platform.
FinStickTo(p, plat) ==
    /\ p.x + PlayerW > plat.x
    /\ p.x < plat.x + FinPlatW
    /\ 0 <= plat.y - (p.y + PlayerH)
    /\ plat.y - (p.y + PlayerH) <= StickMax

\* Second pass: the loop, which stops at the first platform it snaps to.
RECURSIVE FinStickLoop(_, _, _)
FinStickLoop(p, plats, n) ==
    IF n > Len(plats) THEN p
    ELSE IF FinStickTo(p, plats[n])
         THEN [p EXCEPT !.y = plats[n].y - PlayerH, !.on_ground = TRUE]
         ELSE FinStickLoop(p, plats, n + 1)

\* Second pass: "if not self.on_ground and abs(self.vel_y) < 1e-3".
FinSecondPass(p, plats) ==
    IF ~p.on_ground /\ p.vel_y = 0 THEN FinStickLoop(p, plats, 1) ELSE p

\* handle_vertical_collisions
FinVertical(p, plats) ==
    LET q == [p EXCEPT !.on_ground = FALSE]
    IN  FinSecondPass(FinFirstPass(q, plats, FinOverlapped(q, plats), 1), plats)

\* Player.update up to and including the vertical move.
FinMoved(p, plats) == FinMoveY(FinHorizontal(FinGravityStep(p), plats))

\* Player.update: gravity, horizontal and vertical movement with collisions.
FinBody(p, plats) == FinVertical(FinMoved(p, plats), plats)

\* The coins a spritecollide(self, self.coins, True) leaves.
RECURSIVE FinCoinsLeft(_, _, _)
FinCoinsLeft(p, cs, n) ==
    IF n > Len(cs) THEN <<>>
    ELSE (IF HitsCoin(p, cs[n]) THEN <<>> ELSE <<cs[n]>>)
         \o FinCoinsLeft(p, cs, n + 1)

\* Player.update: "Collect coins".
FinCollect(g) ==
    LET left == FinCoinsLeft(g.player, g.coins, 1)
    IN  [g EXCEPT !.coins = left,
                  !.score = g.score + (Len(g.coins) - Len(left)),
                  !.ev.collected = Len(g.coins) - Len(left)]

FinTouched(p, es) ==
    SelectSeq([n \in 1 .. Len(es) |-> n], LAMBDA n : FinHitsEnemy(p, es[n]))

\* Faulty variant of FinEnemyHits: an attacking player removes only the first
\* enemy it overlaps.
FinEnemyHitsFirstOnly(g) ==
    LET p == g.player
        hits == FinTouched(p, g.enemies)
    IN  IF Len(hits) = 0 THEN g
        ELSE IF p.attacking
             THEN [g EXCEPT !.enemies =
                       [m \in 1 .. Len(g.enemies) - 1 |->
                           g.enemies[IF m < hits[1] THEN m ELSE m + 1]],
                            !.ev.killed = 1]
             ELSE [g EXCEPT !.lives = g.lives - 1,
                            !.player = [p EXCEPT !.x = p.x - p.dir * Knockback,
                                                 !.vel_y = 0,
                                                 !.on_ground = FALSE],
                            !.ev.hit = TRUE]

\* Player.update: "Collide with enemies".  An attacking player removes every
\* enemy it overlaps; otherwise the first one costs a life and knocks it back.
FinEnemyHits(g) ==
    LET p == g.player
        hits == FinTouched(p, g.enemies)
    IN  IF Len(hits) = 0 THEN g
        ELSE IF p.attacking
             THEN [g EXCEPT !.enemies =
                       SelectSeq(g.enemies, LAMBDA e : ~FinHitsEnemy(p, e)),
                            !.ev.killed = Len(hits)]
             ELSE [g EXCEPT !.lives = g.lives - 1,
                            !.player = [p EXCEPT !.x = p.x - p.dir * Knockback,
                                                 !.vel_y = 0,
                                                 !.on_ground = FALSE],
                            !.ev.hit = TRUE]

\* Player.update: "Update attack timer".
FinAttackTimer(p) ==
    IF p.attacking
    THEN [p EXCEPT !.attack_timer = p.attack_timer - 1,
                   !.attacking = (p.attack_timer - 1 > 0)]
    ELSE p

\* Player.update
FinUpdate(g) ==
    LET g1 == [g EXCEPT !.player = FinBody(g.player, g.platforms)]
        g2 == FinEnemyHits(FinCollect(g1))
    IN  [g2 EXCEPT !.player = FinAttackTimer(g2.player)]

\* Enemy.update
FinEnemyUpdate(e, plats, camera_dx) ==
    LET x1 == e.x + e.dir * FinEnemySpeed
        on_platform == \E n \in 1 .. Len(plats) :
                          Collide(x1, e.y + FinProbe, FinEnemyW, EnemyH,
                                  plats[n].x, plats[n].y, FinPlatW, PlatH)
    IN  IF on_platform
        THEN [e EXCEPT !.x = x1 - camera_dx]
        ELSE [e EXCEPT !.dir = -e.dir,
                       !.x = x1 + (-e.dir) * FinEnemySpeed * 2 - camera_dx]

\* Faulty variant of FinCameraX: the clamp at the world's left end is missing.
FinCameraXNoFloor(p, ww) ==
    Min(p.x + PlayerW \div 2 - ScreenW \div 2, ww - ScreenW)

\* run: the clamped camera position for the player's centerx.
FinCameraX(p, ww) ==
    Max(0, Min(p.x + PlayerW \div 2 - ScreenW \div 2, ww - ScreenW))

\* run: camera_dx and last_camera_x, taken before the sprites update.
FinCamera(g) ==
    [g EXCEPT !.dx = FinCameraX(g.player, g.length) - g.offset,
              !.offset = FinCameraX(g.player, g.length)]

\* run: "for enemy in self.enemies: enemy.update(camera_dx)"
FinEnemies(g) ==
    [g EXCEPT !.enemies = [n \in 1 .. Len(g.enemies) |->
                              FinEnemyUpdate(g.enemies[n], g.platforms, g.dx)]]

\* run: "Shift all platforms, coins, enemies relative to camera".
FinShift(g) ==
    [g EXCEPT !.platforms = [n \in 1 .. Len(g.platforms) |->
                                [g.platforms[n] EXCEPT !.x = @ - g.dx]],
              !.coins = [n \in 1 .. Len(g.coins) |->
                            [g.coins[n] EXCEPT !.x = @ - g.dx]]]

\* run: "Check for level completion".
FinAdvance(g, r) ==
    IF Len(g.coins) = 0 /\ ~g.game_over
    THEN IF g.level + 1 >= NumLevels
         THEN [g EXCEPT !.level = g.level + 1, !.game_won = TRUE,
                        !.ev.checked = TRUE]
         ELSE [FinLoaded(g, r, g.level + 1) EXCEPT
                        !.level = g.level + 1, !.skip = TRUE,
                        !.ev.checked = TRUE, !.ev.loaded = TRUE]
    ELSE g

\* run: "Check for falling off screen"; skipped by the continue after a load.
FinFallOff(g) ==
    IF ~g.skip /\ g.player.y > ScreenH
    THEN LET sp == FinPlatformList(g.platforms)
             q == IF Len(sp) > 0
                  THEN [g.player EXCEPT !.x = FinStandOn(sp[1]).x,
                                        !.y = FinStandOn(sp[1]).y,
                                        !.vel_y = 0,
                                        !.on_ground = TRUE]
                  ELSE g.player
         IN  [g EXCEPT !.lives = g.lives - 1,
                       !.player = q,
                       !.game_over = (g.game_over \/ g.lives - 1 <= 0),
                       !.ev.fell = TRUE]
    ELSE g

\* The loop's variables of game_final.py as one record.
FinGame ==
    [player |-> player, platforms |-> platforms, coins |-> coins,
     enemies |-> enemies, length |-> level_length, level |-> current_level,
     score |-> score, lives |-> lives, game_over |-> game_over,
     game_won |-> game_won, spawn |-> spawn, offset |-> offset_x,
     random |-> rng,
     ev |-> [NoEvent EXCEPT !.acted = TRUE], dx |-> 0, skip |-> FALSE]

\* The seeds the program uses.
FinSeeds ==
    UNION {{i, i + FinCoinSeed, i + FinEnemySeed} : i \in 0 .. NumLevels - 1}

\* The generators Game.__init__ may hold once generate_levels has run: per
\* seed the values drawn, which are the platform positions (randint), the
\* platforms picked for coins and enemies (choice) and the enemies'
\* directions (choice).  T: the candidate level tables; cp, ep: the picked
\* platforms; D: the candidate directions.
FinRandomFrom(T, cp, ep, D) ==
    {[stream |-> [s \in FinSeeds |->
         IF s < FinCoinSeed
         THEN [n \in 1 .. 2 * Len(lay[s]) |->
                  IF n % 2 = 1 THEN lay[s][(n + 1) \div 2].x
                  ELSE lay[s][n \div 2].y]
         ELSE IF s < FinEnemySeed
         THEN [n \in 1 .. Len(lay[s - FinCoinSeed]) |-> cp]
         ELSE [n \in 1 .. 2 * Len(lay[s - FinEnemySeed]) |->
                  IF n % 2 = 1 THEN ep ELSE IF ed = -1 THEN 1 ELSE 2]],
      seed |-> NumLevels - 1,
      used |-> 2 * Len(lay[NumLevels - 1])] :
        lay \in T, ed \in D}

FinRandom ==
    FinRandomFrom([0 .. NumLevels - 1 -> FinLayouts], FinCoinPick, FinEnemyPick,
                  {-1, 1})

\* Game.__init__, for the values R the random source may yield.
FinStart(R) ==
    \E r \in R :
    \E lv \in {FinLoadLevel(r, 0)} :
        Start("final",
              FinPlace(NewPlayer(0, 0), lv.spawn,
                       Len(FinPlatformList(lv.platforms)) > 0),
              lv.platforms, lv.coins, lv.enemies, lv.length, lv.spawn,
              lv.random)

InitFinal == pc = "frame" /\ FinStart(FinRandom)

\* The snapshots explored in the frames of game_final.py: walking and attack
\* (jumps are explored by the body specification below).
FinalKeys ==
    {NoKeys, [NoKeys EXCEPT !.l = TRUE], [NoKeys EXCEPT !.r = TRUE],
     [NoKeys EXCEPT !.f = TRUE]}

\* Inputs are explored while they do not walk the player out of the window.
Explore(x, dx) ==
    \/ dx = 0
    \/ dx > 0 /\ x + dx <= level_length + XMargin
    \/ dx < 0 /\ x + dx >= -XMargin

\* Keys are explored on the frames that start on the ground.
Grounded(k) == k = NoKeys \/ player.on_ground

FinScreens == {"over_screen", "win_screen"}

\* run: one iteration of the loop; it ends in handle_game_over or handle_win
\* when the flag is set.
FinFrame ==
    /\ variant = "final"
    /\ pc = "frame"
    /\ lives > -LivesFloor
    /\ \E k \in FinalKeys :
      \E g1 \in {FinCamera([FinGame EXCEPT !.player = FinHandleInput(player, k)])} :
      \E g2 \in {FinUpdate(g1)} :
      \E g3 \in {FinShift(FinEnemies(g2))} :
      \E g4 \in {FinAdvance(g3, rng)} :
      \E r \in {FinFallOff(g4)} :
            /\ Explore(player.x, g1.player.vel_x)
            /\ Grounded(k)
            /\ Commit(r)
            /\ rng' = r.random
            /\ pc' = IF r.game_over THEN "over_screen"
                     ELSE IF r.game_won THEN "win_screen" ELSE "frame"
    /\ UNCHANGED <<variant, keys, mid>>

\* Faulty variant of FinRestart: the reload keeps the lives the player had.
FinRestartKeepsLives ==
    /\ variant = "final"
    /\ pc \in FinScreens
    /\ Commit([FinLoaded([FinGame EXCEPT !.level = 0], rng, 0) EXCEPT
                !.lives = lives,
                !.ev = [NoEvent EXCEPT !.restart = TRUE]])
    /\ rng' = FinLoadLevel(rng, 0).random
    /\ pc' = "frame"
    /\ UNCHANGED <<variant, keys, mid>>

\* handle_game_over, handle_win: R restarts from level 0.
FinRestart ==
    /\ variant = "final"
    /\ pc \in FinScreens
    /\ Commit([FinLoaded([FinGame EXCEPT !.level = 0], rng, 0) EXCEPT
                !.ev = [NoEvent EXCEPT !.restart = TRUE]])
    /\ rng' = FinLoadLevel(rng, 0).random
    /\ pc' = "frame"
    /\ UNCHANGED <<variant, keys, mid>>

\* handle_game_over, handle_win: a tick of the waiting loop without R or QUIT.
FinWait ==
    /\ variant = "final"
    /\ pc \in FinScreens
    /\ ev' = [ev EXCEPT !.acted = FALSE]
    /\ UNCHANGED <<variant, pc, keys, player, platforms, coins, enemies,
                   level_length, current_level, score, lives, game_over,
                   game_won, offset_x, spawn, rng, mid>>

\* handle_game_over, handle_win: QUIT ends the waiting loop and the game.
FinQuit ==
    /\ variant = "final"
    /\ pc \in FinScreens
    /\ pc' = "exit"
    /\ UNCHANGED <<variant, keys, player, platforms, coins, enemies,
                   level_length, current_level, score, lives, game_over,
                   game_won, offset_x, spawn, rng, mid, ev>>

----------------------------------------------------------------------------
(* Specifications.                                                         *)

\* Faulty variant of IdleFrame: the enemies keep patrolling while the game is
\* over or completed.
IdleFrameEnemiesMove ==
    /\ variant \in {"full", "ultra"}
    /\ pc \in {"frame", "idle"}
    /\ ~Active
    /\ pc' = "idle"
    /\ enemies' = [n \in 1 .. Len(enemies) |->
                      IF variant = "ultra" THEN UEnemyUpdate(enemies[n])
                      ELSE FEnemyUpdate(enemies[n])]
    /\ UNCHANGED <<variant, keys, player, platforms, coins,
                   level_length, current_level, score, lives, game_over,
                   game_won, offset_x, spawn, rng, mid, ev>>

\* main (game_full.py, game_ultra.py): an iteration that starts with game_over
\* or game_completed only draws.
IdleFrame ==
    /\ variant \in {"full", "ultra"}
    /\ pc \in {"frame", "idle"}
    /\ ~Active
    /\ pc' = "idle"
    /\ UNCHANGED <<variant, keys, player, platforms, coins, enemies,
                   level_length, current_level, score, lives, game_over,
                   game_won, offset_x, spawn, rng, mid, ev>>

\* main (game_full.py, game_ultra.py): Escape on the game-over or win screen
\* returns.
Quit ==
    /\ variant \in {"full", "ultra"}
    /\ pc \in {"frame", "idle"}
    /\ ~Active
    /\ pc' = "exit"
    /\ UNCHANGED <<variant, keys, player, platforms, coins, enemies,
                   level_length, current_level, score, lives, game_over,
                   game_won, offset_x, spawn, rng, mid, ev>>

NextFull == FFrame \/ IdleFrame \/ Quit

SpecFull == InitFull /\ [][NextFull]_vars

NextUltra == UFrame \/ IdleFrame \/ Quit

SpecUltra == InitUltra /\ [][NextUltra]_vars

NextFinal == FinFrame \/ FinRestart \/ FinWait \/ FinQuit

SpecFinal == InitFinal /\ [][NextFinal]_vars

\* game_full.py and game_ultra.py.
InitClassic == InitFull \/ InitUltra

NextClassic == FFrame \/ UFrame \/ IdleFrame \/ Quit

SpecClassic == InitClassic /\ [][NextClassic]_vars

\* The three scripts.
InitGames == InitFull \/ InitUltra \/ InitFinal

NextGames ==
    FFrame \/ UFrame \/ IdleFrame \/ Quit \/ FinFrame \/ FinRestart \/ FinWait
    \/ FinQuit

SpecGames == InitGames /\ [][NextGames]_vars

----------------------------------------------------------------------------
(* The player's body alone: Player.handle_input and Player.update applied   *)
(* frame after frame on the platforms of level 0, with the sampled keys and *)
(* the body after the vertical move recorded.  The body is followed until   *)
(* it drops out of the level (game_ultra.py) or the camera would start to   *)
(* scroll or it drops below the screen (game_final.py).                     *)

FinBodyRandom ==
    FinRandomFrom({[i \in 0 .. NumLevels - 1 |-> l] : l \in FinBodyLayouts},
                  1, 2, {1})

InitBody == pc = "body" /\ (UStart \/ FinStart(FinBodyRandom))

\* game_ultra.py: dx = player.handle_input(); player.update(platforms, dx)
UBodyFrame ==
    /\ variant = "ultra"
    /\ pc = "body"
    /\ player.y <= ScreenH + FallMargin
    /\ \E k \in MoveKeys :
          /\ InWindow(player.x + UInputDx(k))
          /\ keys' = k
          /\ mid' = BodyMid(UMoved(UHandleInput(player, k), platforms, UInputDx(k)))
          /\ player' = UUpdate(UHandleInput(player, k), platforms, UInputDx(k))
    /\ UNCHANGED <<variant, pc, platforms, coins, enemies, level_length,
                   current_level, score, lives, game_over, game_won, offset_x,
                   spawn, rng, ev>>

\* game_final.py: handle_input(keys), then update() up to the vertical pass.
FinBodyFrame ==
    /\ variant = "final"
    /\ pc = "body"
    /\ player.y <= ScreenH
    /\ FinCameraX(player, level_length) = offset_x
    /\ \E k \in MoveKeys :
          /\ Explore(player.x, FinHandleInput(player, k).vel_x)
          /\ keys' = k
          /\ mid' = BodyMid(FinMoved(FinHandleInput(player, k), platforms))
          /\ player' = FinBody(FinHandleInput(player, k), platforms)
    /\ UNCHANGED <<variant, pc, platforms, coins, enemies, level_length,
                   current_level, score, lives, game_over, game_won, offset_x,
                   spawn, rng, ev>>

NextBody == UBodyFrame \/ FinBodyFrame

SpecBody == InitBody /\ [][NextBody]_vars

----------------------------------------------------------------------------
(* Enemy patrol alone: the enemies generate_levels places on level 0 for    *)
(* platform and enemy images of any of the widths drawn, updated call after *)
(* call.                                                                    *)

InitPatrol ==
    /\ pc = "patrol"
    /\ \E pw \in PatrolPlatWs, ew \in PatrolEnemyWs :
          \/ LET lv == ULoadLevel(0)
                 sp == USpawn(lv.platforms)
                 es == UGenEnemies(0, pw, ew)
             IN  Start("ultra", NewPlayer(sp.x, sp.y), lv.platforms, lv.coins,
                       [n \in 1 .. Len(es) |-> UNewEnemy(es[n])], lv.length,
                       sp, <<>>)
          \/ LET lv == FLoadLevel(0)
                 es == FGenEnemies(0, pw, ew)
             IN  Start("full", NewPlayer(FSpawn.x, FSpawn.y), lv.platforms,
                       lv.coins, [n \in 1 .. Len(es) |-> FNewEnemy(es[n])],
                       lv.length, FSpawn, <<>>)

\* game_ultra.py: "for enemy in enemies: enemy.update()"
UPatrol ==
    /\ variant = "ultra"
    /\ pc = "patrol"
    /\ enemies' = [n \in 1 .. Len(enemies) |-> UEnemyUpdate(enemies[n])]
    /\ UNCHANGED <<variant, pc, keys, player, platforms, coins, level_length,
                   current_level, score, lives, game_over, game_won, offset_x,
                   spawn, rng, mid, ev>>

\* game_full.py: "for enemy in enemies: enemy.update()"
FPatrol ==
    /\ variant = "full"
    /\ pc = "patrol"
    /\ enemies' = [n \in 1 .. Len(enemies) |-> FEnemyUpdate(enemies[n])]
    /\ UNCHANGED <<variant, pc, keys, player, platforms, coins, level_length,
                   current_level, score, lives, game_over, game_won, offset_x,
                   spawn, rng, mid, ev>>

NextPatrol == UPatrol \/ FPatrol

SpecPatrol == InitPatrol /\ [][NextPatrol]_vars

\* The main loops run "for enemy in enemies: enemy.update()" in every
\* iteration while the game is active: the patrol step is taken again and
\* again.
SpecPatrolFair == SpecPatrol /\ WF_vars(UPatrol) /\ WF_vars(FPatrol)

----------------------------------------------------------------------------
(* main.py: one player of 40 x 60 on four platforms of their own sizes, no   *)
(* coins, enemies or levels.  Its frames are followed while the player is    *)
(* on the screen's height, next to those of game_full.py and game_ultra.py.  *)

\* The ground and the three additional platforms.
MainPlatforms ==
    <<[x |-> 0, y |-> MainScreenH - MainGroundH, w |-> MainScreenW, h |-> MainGroundH],
      [x |-> 200, y |-> 450, w |-> 120, h |-> 20],
      [x |-> 400, y |-> 350, w |-> 150, h |-> 20],
      [x |-> 650, y |-> 250, w |-> 100, h |-> 20]>>

\* Player.__init__: rect.bottomleft = (100, 500).
MainStart ==
    Start("main", NewPlayer(100, 500 - MainPlayerH), MainPlatforms, <<>>, <<>>,
          MainScreenW, [x |-> 100, y |-> 500 - MainPlayerH], <<>>)

\* self.rect.colliderect(platform.rect)
MainHits(p, plat) ==
    Collide(p.x, p.y, MainPlayerW, MainPlayerH, plat.x, plat.y, plat.w, plat.h)

\* Player.update: movement input and jumping.
MainInput(p, k) ==
    LET vx == IF k.r THEN Walk ELSE IF k.l THEN -Walk ELSE 0
    IN  [p EXCEPT !.vel_x = vx,
                  !.vel_y = IF k.j /\ p.on_ground THEN JumpVel ELSE p.vel_y]

\* Faulty variant of MainGravity: the fall speed is not capped.
MainGravityNoCap(p) == [p EXCEPT !.vel_y = p.vel_y + Gravity]

\* Player.update: apply gravity.
MainGravity(p) ==
    LET v == p.vel_y + Gravity
    IN  [p EXCEPT !.vel_y = IF v > MaxFall THEN MaxFall ELSE v]

\* Player.update: horizontal collision, the platforms from index n on.
RECURSIVE MainHorizontal(_, _, _)
MainHorizontal(p, plats, n) ==
    IF n > Len(plats) THEN p
    ELSE MainHorizontal(
            IF MainHits(p, plats[n])
            THEN IF p.vel_x > 0 THEN [p EXCEPT !.x = plats[n].x - MainPlayerW]
                 ELSE IF p.vel_x < 0 THEN [p EXCEPT !.x = plats[n].x + plats[n].w]
                 ELSE p
            ELSE p, plats, n + 1)

\* Player.update: vertical collision, the platforms from index n on.
RECURSIVE MainVertical(_, _, _)
MainVertical(p, plats, n) ==
    IF n > Len(plats) THEN p
    ELSE MainVertical(
            IF MainHits(p, plats[n])
            THEN IF p.vel_y > 0
                 THEN [p EXCEPT !.y = plats[n].y - MainPlayerH, !.vel_y = 0,
                                !.on_ground = TRUE]
                 ELSE IF p.vel_y < 0
                      THEN [p EXCEPT !.y = plats[n].y + plats[n].h, !.vel_y = 0]
                      ELSE p
            ELSE p, plats, n + 1)

\* Player.update
MainUpdate(p, k, plats) ==
    LET p1 == MainGravity(MainInput(p, k))
        p2 == MainHorizontal([p1 EXCEPT !.x = p1.x + p1.vel_x], plats, 1)
        p3 == [p2 EXCEPT !.y = AddTenths(p2.y, p2.vel_y), !.on_ground = FALSE]
    IN  MainVertical(p3, plats, 1)

\* main: one iteration of the loop.
MainFrame ==
    /\ variant = "main"
    /\ pc = "frame"
    /\ player.y <= MainScreenH
    /\ \E k \in MoveKeys : player' = MainUpdate(player, k, platforms)
    /\ UNCHANGED <<variant, pc, keys, platforms, coins, enemies, level_length,
                   current_level, score, lives, game_over, game_won, offset_x,
                   spawn, rng, mid, ev>>

\* The three scripts with gravity 0.5, cap 10 and impulse -12.
InitPhysics == pc = "frame" /\ (FStart \/ UStart \/ MainStart)

NextPhysics == FFrame \/ UFrame \/ IdleFrame \/ Quit \/ MainFrame

SpecPhysics == InitPhysics /\ [][NextPhysics]_vars

----------------------------------------------------------------------------
(* game_enhanced.py: two hand-written levels on one screen, coins and no    *)
(* enemies or lives.  The model keeps the first EnhPlats platforms and the  *)
(* first EnhCoins coins of each level.  An IndexError of levels[index] ends *)
(* the program: pc = "crash".                                               *)

\* main: the levels list, platforms by top-left and coins by centre.
EnhLevels ==
    <<[platforms |-> <<[x |-> 0, y |-> EnhScreenH - EnhGroundDrop],
                       [x |-> 150, y |-> 500], [x |-> 350, y |-> 450],
                       [x |-> 550, y |-> 400], [x |-> 750, y |-> 350],
                       [x |-> 950, y |-> 300]>>,
       coins |-> <<[x |-> 200, y |-> 470], [x |-> 400, y |-> 420],
                   [x |-> 600, y |-> 370], [x |-> 800, y |-> 320],
                   [x |-> 1000, y |-> 270]>>],
      [platforms |-> <<[x |-> 0, y |-> EnhScreenH - EnhGroundDrop],
                       [x |-> 100, y |-> 500], [x |-> 300, y |-> 450],
                       [x |-> 500, y |-> 500], [x |-> 700, y |-> 450],
                       [x |-> 900, y |-> 400]>>,
       coins |-> <<[x |-> 150, y |-> 470], [x |-> 350, y |-> 420],
                   [x |-> 550, y |-> 470], [x |-> 750, y |-> 420],
                   [x |-> 950, y |-> 370]>>]>>

\* load_level: the platforms and the coins (rects by top-left) of a level.
EnhLoadLevel(idx) ==
    [platforms |-> SubSeq(EnhLevels[idx + 1].platforms, 1, EnhPlats),
     coins |-> [n \in 1 .. EnhCoins |->
                  [x |-> EnhLevels[idx + 1].coins[n].x - EnhCoinW \div 2,
                   y |-> EnhLevels[idx + 1].coins[n].y - EnhCoinW \div 2]]]

\* self.rect.colliderect(platform.rect)
EnhHits(p, plat) ==
    Collide(p.x, p.y, EnhPlayerW, EnhPlayerH, plat.x, plat.y, EnhPlatW, EnhPlatH)

\* Player.update: horizontal collision, the platforms from index n on.
RECURSIVE EnhHorizontal(_, _, _, _)
EnhHorizontal(p, dx, plats, n) ==
    IF n > Len(plats) THEN p
    ELSE EnhHorizontal(
            IF EnhHits(p, plats[n])
            THEN IF dx > 0 THEN [p EXCEPT !.x = plats[n].x - EnhPlayerW]
                 ELSE IF dx < 0 THEN [p EXCEPT !.x = plats[n].x + EnhPlatW]
                 ELSE p
            ELSE p, dx, plats, n + 1)

\* Player.update: vertical collision, the platforms from index n on; dy is
\* the vertical speed the frame moved by.
RECURSIVE EnhVertical(_, _, _, _)
EnhVertical(p, dy, plats, n) ==
    IF n > Len(plats) THEN p
    ELSE EnhVertical(
            IF EnhHits(p, plats[n])
            THEN IF dy > 0
                 THEN [p EXCEPT !.y = plats[n].y - EnhPlayerH, !.vel_y = 0,
                                !.on_ground = TRUE]
                 ELSE IF dy < 0
                      THEN [p EXCEPT !.y = plats[n].y + EnhPlatH, !.vel_y = 0]
                      ELSE p
            ELSE p, dy, plats, n + 1)

\* Player.update
EnhUpdate(p, k, plats) ==
    LET dx == IF k.r THEN Walk ELSE IF k.l THEN -Walk ELSE 0
        v == (IF k.j /\ p.on_ground THEN EnhJumpVel ELSE p.vel_y) + Gravity
        p1 == [p EXCEPT !.vel_y = v, !.on_ground = FALSE, !.x = p.x + dx]
        p2 == EnhHorizontal(p1, dx, plats, 1)
    IN  EnhVertical([p2 EXCEPT !.y = AddTenths(p2.y, v)], v, plats, 1)

\* main: the coins pygame.sprite.spritecollide(player, coins, dokill=True)
\* leaves, from index n on.
RECURSIVE EnhCoinsLeft(_, _, _)
EnhCoinsLeft(p, cs, n) ==
    IF n > Len(cs) THEN <<>>
    ELSE (IF Collide(p.x, p.y, EnhPlayerW, EnhPlayerH,
                     cs[n].x, cs[n].y, EnhCoinW, EnhCoinW)
          THEN <<>> ELSE <<cs[n]>>) \o EnhCoinsLeft(p, cs, n + 1)

\* main: the player put back on the start position.
EnhReset(p) ==
    [p EXCEPT !.x = EnhStartX, !.y = EnhScreenH - EnhStartDrop, !.vel_y = 0,
              !.on_ground = FALSE]

\* Faulty variant of EnhAdvance: the next level is loaded before the index
\* is compared with len(levels).
EnhAdvanceLoadsFirst(g) ==
    IF Len(g.coins) > 0 THEN g
    ELSE IF g.level + 1 >= Len(EnhLevels)
         THEN [g EXCEPT !.level = g.level + 1, !.crash = TRUE]
         ELSE [g EXCEPT !.level = g.level + 1,
                        !.platforms = EnhLoadLevel(g.level + 1).platforms,
                        !.coins = EnhLoadLevel(g.level + 1).coins,
                        !.player = EnhReset(g.player),
                        !.loaded = TRUE]

\* main: "if not coins": advance to the next level or finish.
EnhAdvance(g) ==
    IF Len(g.coins) > 0 THEN g
    ELSE IF g.level + 1 >= Len(EnhLevels)
         THEN [g EXCEPT !.level = g.level + 1, !.running = FALSE]
         ELSE [g EXCEPT !.level = g.level + 1,
                        !.platforms = EnhLoadLevel(g.level + 1).platforms,
                        !.coins = EnhLoadLevel(g.level + 1).coins,
                        !.player = EnhReset(g.player),
                        !.loaded = TRUE]

\* main: "reset if player falls off screen": load_level(level_index) raises
\* IndexError when level_index is len(levels).
EnhFallOff(g) ==
    IF g.crash \/ g.player.y <= EnhScreenH THEN g
    ELSE IF g.level >= Len(EnhLevels) THEN [g EXCEPT !.crash = TRUE]
         ELSE [g EXCEPT !.platforms = EnhLoadLevel(g.level).platforms,
                        !.coins = EnhLoadLevel(g.level).coins,
                        !.player = EnhReset(g.player),
                        !.score = 0,
                        !.loaded = TRUE, !.fell = TRUE]

\* main: the state before the loop.
EnhStart ==
    Start("enhanced", NewPlayer(EnhStartX, EnhScreenH - EnhStartDrop),
          EnhLoadLevel(0).platforms, EnhLoadLevel(0).coins, <<>>, EnhScreenW,
          [x |-> EnhStartX, y |-> EnhScreenH - EnhStartDrop], <<>>)

\* main: one iteration of the loop; quit is a pygame.QUIT event in the queue.
EnhFrame ==
    /\ variant = "enhanced"
    /\ pc = "frame"
    /\ \E k \in MoveKeys, quit \in BOOLEAN :
      \E q \in {EnhUpdate(player, k, platforms)} :
      \E left \in {EnhCoinsLeft(q, coins, 1)} :
      \E g \in {EnhFallOff(EnhAdvance(
                      [player |-> q, platforms |-> platforms, coins |-> left,
                       level |-> current_level,
                       score |-> score + (Len(coins) - Len(left)),
                       running |-> ~quit, crash |-> FALSE, loaded |-> FALSE,
                       fell |-> FALSE]))} :
              /\ player' = g.player
              /\ platforms' = g.platforms
              /\ coins' = g.coins
              /\ current_level' = g.level
              /\ score' = g.score
              /\ ev' = [NoEvent EXCEPT !.loaded = g.loaded, !.fell = g.fell,
                                       !.collected = Len(coins) - Len(left)]
              /\ pc' = IF g.crash THEN "crash"
                       ELSE IF g.running THEN "frame" ELSE "exit"
    /\ UNCHANGED <<variant, keys, enemies, level_length, lives, game_over,
                   game_won, offset_x, spawn, rng, mid>>

\* The four scripts that keep a level index.
InitIndexed == pc = "frame" /\ (FStart \/ UStart \/ FinStart(FinRandom) \/ EnhStart)

NextIndexed ==
    FFrame \/ UFrame \/ IdleFrame \/ Quit \/ FinFrame \/ FinRestart \/ FinWait
    \/ FinQuit \/ EnhFrame

SpecIndexed == InitIndexed /\ [][NextIndexed]_vars

----------------------------------------------------------------------------
(* Player.update of game_ultra.py on platform sets of its caller's choice:  *)
(* two platforms that do not overlap each other, side by side with a small  *)
(* gap and a small step in height, in either list order, and a player that  *)
(* overlaps neither, near their tops or undersides, with a vertical speed   *)
(* a frame can leave.                                                       *)

\* The second platform relative to the first.
SolidGaps == {0, 1}
SolidSteps == {-Walk, 0, Walk}

\* The speeds drawn, of those a frame can leave (-11.5 .. 10 in steps of 0.5).
SolidSpeeds ==
    {JumpVel + Gravity, JumpVel \div 2, -Gravity, 0, Gravity, MaxFall \div 2, MaxFall}

\* How far from a platform top or underside the player is placed.
SolidReach == MaxFall \div 10 + 2

\* No two platforms of the list overlap.
Disjoint(plats) ==
    \A m \in 1 .. Len(plats), n \in 1 .. Len(plats) :
        m # n => ~Collide(plats[m].x, plats[m].y, PlatW, PlatH,
                          plats[n].x, plats[n].y, PlatW, PlatH)

\* The body p overlaps no platform of the list.
Outside(p, plats) == \A n \in 1 .. Len(plats) : ~HitsPlat(p, plats[n])

InitSolid ==
    /\ pc = "placed"
    /\ \E gap \in SolidGaps, step \in SolidSteps, swap \in BOOLEAN,
          v \in SolidSpeeds, og \in BOOLEAN :
       \E a \in {ULoadLevel(0).platforms[1]} :
       \E b \in {[x |-> a.x + PlatW + gap, y |-> a.y + step]} :
       \E plats \in {IF swap THEN <<b, a>> ELSE <<a, b>>} :
       \E px \in a.x - PlayerW .. b.x + PlatW,
          py \in (a.y - PlayerH - SolidReach .. a.y - PlayerH + Walk)
                  \cup (a.y + PlatH - Walk .. a.y + PlatH + SolidReach) :
       \E p \in {[NewPlayer(px, py) EXCEPT !.vel_y = v, !.on_ground = og]} :
          /\ Disjoint(plats)
          /\ Outside(p, plats)
          /\ Start("ultra", p, plats, <<>>, <<>>, ULoadLevel(0).length,
                   [x |-> px, y |-> py], <<>>)

\* dx = player.handle_input(); player.update(platforms, dx)
SolidUpdate ==
    /\ pc = "placed"
    /\ pc' = "updated"
    /\ \E k \in MoveKeys :
          /\ keys' = k
          /\ player' = UUpdate(UHandleInput(player, k), platforms, UInputDx(k))
    /\ UNCHANGED <<variant, platforms, coins, enemies, level_length,
                   current_level, score, lives, game_over, game_won, offset_x,
                   spawn, rng, mid, ev>>

SpecSolid == InitSolid /\ [][SolidUpdate]_vars

----------------------------------------------------------------------------
(* generate_levels of game_full.py and game_ultra.py with the lengths,      *)
(* steps and counts of the sources (not scaled down), level after level:    *)
(* the origins of the platforms and coins of levels 0 .. 29.  The coin      *)
(* inset (plat_w - coin_w) // 2 depends on the image files and is drawn.    *)

\* (plat_w - coin_w) // 2 for platform images 64 .. 200 wide and coin images
\* 16 .. 32 wide.
WorldInsets == {16, 24, 44, 52, 84, 92}

\* generate_levels: length and step of level i.
WorldLength(v, i) == IF v = "full" THEN 1400 + 300 * i ELSE 1600 + 250 * i

WorldCount(v, i) == IF v = "full" THEN 8 + i \div 2 ELSE 10 + i \div 3

WorldStep(v, i) ==
    IF v = "full" THEN Max(220, (WorldLength(v, i) - 200) \div WorldCount(v, i))
    ELSE Max(180, (WorldLength(v, i) - 200) \div WorldCount(v, i))

\* generate_levels: the platform origins of level i, x = 100 + j * step.
WorldPlatforms(v, i) ==
    [n \in 1 .. WorldCount(v, i) |->
        [x |-> 100 + (n - 1) * WorldStep(v, i),
         y |-> IF v = "full"
               THEN ScreenH - PlatH - FBaseDrop - ((n - 1) % 5) * FRise
               ELSE ScreenH - PlatH - UBaseDrop - ((n - 1) % 4) * URise]]

\* generate_levels: a coin above every 2nd platform (j % 2 == 0).
WorldCoins(v, i, inset) ==
    [m \in 1 .. (WorldCount(v, i) + 1) \div 2 |->
        [x |-> WorldPlatforms(v, i)[2 * m - 1].x + inset,
         y |-> WorldPlatforms(v, i)[2 * m - 1].y - CoinH - CoinGap]]

InitWorld ==
    /\ pc = "world"
    /\ \E v \in {"full", "ultra"}, inset \in WorldInsets :
          Start(v, NewPlayer(0, 0), WorldPlatforms(v, 0), WorldCoins(v, 0, inset),
                <<>>, WorldLength(v, 0), [x |-> 0, y |-> 0], <<>>)

\* The next iteration of "for i in range(num_levels)".
WorldNextLevel ==
    /\ pc = "world"
    /\ current_level + 1 < GenCount
    /\ current_level' = current_level + 1
    /\ level_length' = WorldLength(variant, current_level + 1)
    /\ platforms' = WorldPlatforms(variant, current_level + 1)
    /\ coins' = WorldCoins(variant, current_level + 1,
                           coins[1].x - platforms[1].x)
    /\ UNCHANGED <<variant, pc, keys, player, enemies, score, lives, game_over,
                   game_won, offset_x, spawn, rng, mid, ev>>

SpecWorld == InitWorld /\ [][WorldNextLevel]_vars

----------------------------------------------------------------------------
(* The attack of game_final.py: the frames of Game.run with the walk and   *)
(* attack keys held together or apart, the sampled keys and the player     *)
(* right after Player.update recorded.                                     *)

AttackKeys ==
    {[l |-> FALSE, r |-> b, j |-> FALSE, f |-> c] : b \in BOOLEAN, c \in BOOLEAN}

InitAttack == pc = "attack" /\ FinStart(FinRandom)

\* run: one iteration of the loop while the game is neither over nor won.
FinAttackFrame ==
    /\ variant = "final"
    /\ pc = "attack"
    /\ ~game_over /\ ~game_won
    /\ lives > -LivesFloor
    /\ \E k \in AttackKeys :
      \E g1 \in {FinCamera([FinGame EXCEPT !.player = FinHandleInput(player, k)])} :
      \E g2 \in {FinUpdate(g1)} :
      \E g3 \in {FinShift(FinEnemies(g2))} :
      \E g4 \in {FinAdvance(g3, rng)} :
      \E r \in {FinFallOff(g4)} :
            /\ Explore(player.x, g1.player.vel_x)
            /\ Grounded(k)
            /\ Commit(r)
            /\ rng' = r.random
            /\ keys' = k
            /\ mid' = BodyMid(g2.player)
    /\ UNCHANGED <<variant, pc>>

SpecAttack == InitAttack /\ [][FinAttackFrame]_vars

\* game_final.py with the attack key held from some frame on: the frames of
\* FinAttackFrame, then frames that all have F held, in the air as on the
\* ground.
ShieldKeys ==
    {[l |-> a, r |-> b, j |-> FALSE, f |-> TRUE] : a \in BOOLEAN, b \in BOOLEAN}

\* run: one iteration of the loop with F held.
FinShieldFrame ==
    /\ variant = "final"
    /\ pc \in {"attack", "shield"}
    /\ ~game_over /\ ~game_won
    /\ lives > -LivesFloor
    /\ \E k \in ShieldKeys :
      \E g1 \in {FinCamera([FinGame EXCEPT !.player = FinHandleInput(player, k)])} :
      \E g2 \in {FinUpdate(g1)} :
      \E g3 \in {FinShift(FinEnemies(g2))} :
      \E g4 \in {FinAdvance(g3, rng)} :
      \E r \in {FinFallOff(g4)} :
            /\ Explore(player.x, g1.player.vel_x)
            /\ Commit(r)
            /\ rng' = r.random
            /\ keys' = k
            /\ mid' = BodyMid(g2.player)
    /\ pc' = "shield"
    /\ UNCHANGED variant

SpecShield == InitAttack /\ [][FinAttackFrame \/ FinShieldFrame]_vars

----------------------------------------------------------------------------
(* game.py: one level, no enemies, no camera.  Player.update reads the     *)
(* keys itself; its collision loops are those of game_ultra.py, but        *)
(* on_ground is not cleared before the vertical loop and the fall has no   *)
(* speed limit.                                                            *)

\* main: the ground platform and the three platforms above it.
BasicPlatforms ==
    <<[x |-> 0, y |-> ScreenH - PlatH],
      [x |-> BasicStepX, y |-> 450],
      [x |-> 2 * BasicStepX, y |-> 350],
      [x |-> 3 * BasicStepX, y |-> 250]>>

\* main: Coin(220, 420), Coin(420, 320), Coin(620, 220); rect center = (x, y).
BasicCoins ==
    [n \in 1 .. 3 |->
        [x |-> n * BasicStepX + BasicCoinInset - CoinW \div 2,
         y |-> 450 - (n - 1) * 100 - 30 - CoinH \div 2]]

\* Player.update up to the vertical move: keys, jump, gravity, horizontal
\* pass, rect.y += dy.
BasicMoved(p, k, plats) ==
    LET p1 == IF k.j /\ p.on_ground
              THEN [p EXCEPT !.vel_y = BasicJumpVel, !.on_ground = FALSE]
              ELSE p
        p2 == [p1 EXCEPT !.vel_y = p1.vel_y + Gravity]
        p3 == UHorizontal([p2 EXCEPT !.x = p2.x + UInputDx(k)], UInputDx(k),
                          plats, 1)
    IN  [p3 EXCEPT !.y = AddTenths(p3.y, p3.vel_y)]

\* Player.update: the vertical loop, then the reset below the screen.
BasicUpdate(p, k, plats) ==
    LET q == UFirstPass(BasicMoved(p, k, plats), plats, 1)
    IN  IF q.y > ScreenH
        THEN [q EXCEPT !.x = BasicStartX, !.y = ScreenH - BasicStartDrop,
                       !.vel_y = 0, !.on_ground = FALSE]
        ELSE q

\* main: the state before the loop.
InitBasic ==
    /\ pc = "basic"
    /\ Start("basic", NewPlayer(BasicStartX, ScreenH - BasicStartDrop),
             BasicPlatforms, BasicCoins, <<>>, 4 * BasicStepX,
             [x |-> BasicStartX, y |-> ScreenH - BasicStartDrop], <<>>)

\* The jump key is explored on the frames that start at rest or in the first
\* two frames of a fall.
BasicExplore(k) == k.j => (player.vel_y >= 0 /\ player.vel_y <= 2 * Gravity)

\* Faulty variant of BasicFrame: a fall restores the coins and keeps the score.
BasicFrameKeepsScore ==
    /\ variant = "basic"
    /\ pc = "basic"
    /\ \E k \in MoveKeys :
        \E q \in {UFirstPass(BasicMoved(player, k, platforms), platforms, 1)} :
        \E left \in {CoinsLeft(BasicUpdate(player, k, platforms), coins, 1)} :
          /\ InWindow(player.x + UInputDx(k))
          /\ BasicExplore(k)
          /\ mid' = BodyMid(BasicMoved(player, k, platforms))
          /\ player' = BasicUpdate(player, k, platforms)
          /\ coins' = IF q.y > ScreenH THEN BasicCoins ELSE left
          /\ score' = score + Len(coins) - Len(left)
          /\ ev' = [NoEvent EXCEPT !.acted = TRUE, !.fell = q.y > ScreenH,
                                  !.collected = Len(coins) - Len(left)]
    /\ UNCHANGED <<variant, pc, keys, platforms, enemies, level_length,
                   current_level, lives, game_over, game_won, offset_x,
                   spawn, rng>>

\* main: one iteration of the loop.
BasicFrame ==
    /\ variant = "basic"
    /\ pc = "basic"
    /\ \E k \in MoveKeys :
        \E q \in {UFirstPass(BasicMoved(player, k, platforms), platforms, 1)} :
        \E left \in {CoinsLeft(BasicUpdate(player, k, platforms), coins, 1)} :
          /\ InWindow(player.x + UInputDx(k))
          /\ BasicExplore(k)
          /\ mid' = BodyMid(BasicMoved(player, k, platforms))
          /\ player' = BasicUpdate(player, k, platforms)
          /\ coins' = IF q.y > ScreenH THEN BasicCoins ELSE left
          /\ score' = IF q.y > ScreenH THEN 0 ELSE score + Len(coins) - Len(left)
          /\ ev' = [NoEvent EXCEPT !.acted = TRUE, !.fell = q.y > ScreenH,
                                  !.collected = Len(coins) - Len(left)]
    /\ UNCHANGED <<variant, pc, keys, platforms, enemies, level_length,
                   current_level, lives, game_over, game_won, offset_x,
                   spawn, rng>>

SpecBasic == InitBasic /\ [][BasicFrame]_vars

----------------------------------------------------------------------------
(* generate_levels of game_full.py and game_ultra.py alone, iteration after *)
(* iteration of its two loops: the lists of the level under construction    *)
(* grow by one platform at a time and the level is appended when the inner  *)
(* loop is left.                                                            *)

InitLevels ==
    /\ pc = "gen"
    /\ \/ Start("ultra", NewPlayer(0, 0), <<>>, <<>>, <<>>, ULenBase,
                 [x |-> 0, y |-> 0], <<>>)
       \/ Start("full", NewPlayer(0, 0), <<>>, <<>>, <<>>, FLenBase,
                 [x |-> 0, y |-> 0], <<>>)

\* game_ultra.py: one iteration of "for j in range(num_platforms)".
UGenPlatform ==
    LET j == Len(platforms)
        base_y == ScreenH - PlatH - UBaseDrop
        np == UPlatBase + current_level \div 3
        step == Max(UStepMin, (level_length - LenTrim) \div np)
    IN  /\ variant = "ultra"
        /\ pc = "gen"
        /\ j < np
        /\ platforms' = platforms \o UPlatList(j, j + 1, step, base_y)
        /\ coins' = coins \o UCoinList(j, j + 1, step, base_y)
        /\ enemies' = enemies \o UEnemyList(j, j + 1, step, base_y, PlatW, EnemyW)
        /\ UNCHANGED <<variant, pc, keys, player, level_length, current_level,
                       score, lives, game_over, game_won, offset_x, spawn, rng,
                       mid, ev>>

\* game_full.py: one iteration of "for j in range(num_platforms)".
FGenPlatform ==
    LET j == Len(platforms)
        base_y == ScreenH - PlatH - FBaseDrop
        np == FPlatBase + current_level \div 2
        step == Max(FStepMin, (level_length - LenTrim) \div np)
    IN  /\ variant = "full"
        /\ pc = "gen"
        /\ j < np
        /\ platforms' = platforms \o FPlatList(j, j + 1, step, base_y)
        /\ coins' = coins \o FCoinList(j, j + 1, step, base_y)
        /\ enemies' = enemies \o FEnemyList(j, j + 1, step, base_y, PlatW, EnemyW)
        /\ UNCHANGED <<variant, pc, keys, player, level_length, current_level,
                       score, lives, game_over, game_won, offset_x, spawn, rng,
                       mid, ev>>

\* levels.append({...}) once the inner loop has run num_platforms times.
GenAppend ==
    /\ pc = "gen"
    /\ Len(platforms) = IF variant = "ultra" THEN UPlatBase + current_level \div 3
                        ELSE FPlatBase + current_level \div 2
    /\ pc' = "appended"
    /\ UNCHANGED <<variant, keys, player, platforms, coins, enemies,
                   level_length, current_level, score, lives, game_over,
                   game_won, offset_x, spawn, rng, mid, ev>>

\* The next iteration of "for i in range(num_levels)": the length and the
\* empty lists of level i + 1.
GenNextLevel ==
    /\ pc = "appended"
    /\ current_level + 1 < GenCount
    /\ current_level' = current_level + 1
    /\ level_length' = IF variant = "ultra"
                       THEN ULenBase + ULenInc * (current_level + 1)
                       ELSE FLenBase + FLenInc * (current_level + 1)
    /\ platforms' = <<>>
    /\ coins' = <<>>
    /\ enemies' = <<>>
    /\ pc' = "gen"
    /\ UNCHANGED <<variant, keys, player, score, lives, game_over, game_won,
                   offset_x, spawn, rng, mid, ev>>

NextLevels == UGenPlatform \/ FGenPlatform \/ GenAppend \/ GenNextLevel

SpecLevels == InitLevels /\ [][NextLevels]_vars

----------------------------------------------------------------------------
(* One jump in game_full.py and game_ultra.py: the player stands on any     *)
(* platform of any generated level that lies within the level's length,    *)
(* the jump key is held, and the body is followed frame after frame until   *)
(* it stands again.  spawn keeps the place the jump started from.           *)

JumpKeys == [NoKeys EXCEPT !.j = TRUE]

InitJump ==
    /\ pc = "jump"
    /\ \E v \in {"ultra", "full"}, i \in 0 .. GenCount - 1 :
       \E lv \in {IF v = "ultra" THEN ULoadLevel(i) ELSE FLoadLevel(i)} :
       \E n \in 1 .. Len(lv.platforms) :
       \E at \in {[x |-> lv.platforms[n].x, y |-> lv.platforms[n].y - PlayerH]} :
          /\ at.x + PlayerW <= lv.length
          /\ variant = v
          /\ keys = JumpKeys
          /\ player = [NewPlayer(at.x, at.y) EXCEPT !.on_ground = TRUE]
          /\ platforms = lv.platforms
          /\ coins = lv.coins
          /\ enemies = lv.enemies
          /\ level_length = lv.length
          /\ current_level = i
          /\ score = 0
          /\ lives = StartLives
          /\ game_over = FALSE
          /\ game_won = FALSE
          /\ offset_x = 0
          /\ spawn = at
          /\ rng = <<>>
          /\ mid = NoMid
          /\ ev = NoEvent

\* The jump is followed until the body stands again or leaves the screen.
InJump == pc = "jump" /\ ~(mid.set /\ player.on_ground) /\ player.y <= ScreenH

\* game_ultra.py: dx = player.handle_input(); player.update(platforms, dx)
UJumpFrame ==
    /\ variant = "ultra"
    /\ InJump
    /\ mid' = BodyMid(UMoved(UHandleInput(player, keys), platforms, 0))
    /\ player' = UUpdate(UHandleInput(player, keys), platforms, 0)
    /\ UNCHANGED <<variant, pc, keys, platforms, coins, enemies, level_length,
                   current_level, score, lives, game_over, game_won, offset_x,
                   spawn, rng, ev>>

\* game_full.py: player.handle_input(keys); player.update(platforms)
FJumpFrame ==
    /\ variant = "full"
    /\ InJump
    /\ mid' = BodyMid(FMoveY(FApplyGravity(FHandleInput(player, keys))))
    /\ player' = FUpdate(FMoveX(FHandleInput(player, keys), 0, level_length),
                         platforms)
    /\ UNCHANGED <<variant, pc, keys, platforms, coins, enemies, level_length,
                   current_level, score, lives, game_over, game_won, offset_x,
                   spawn, rng, ev>>

SpecJump == InitJump /\ [][UJumpFrame \/ FJumpFrame]_vars

----------------------------------------------------------------------------
(* The enemy contact of game_final.py alone: a player that does not attack  *)
(* and an enemy, with images of any of the widths drawn, have come to       *)
(* overlap by what one frame's moves allow, from either side and with the   *)
(* player facing either way; "Collide with enemies" of Player.update is     *)
(* applied once.  The rects carry their widths (field w); mid keeps the     *)
(* player as it was at the contact.                                         *)

\* spritecollide(self, self.enemies, False) for the rects' own widths.
KnockHits(p, e) == Collide(p.x, p.y, p.w, PlayerH, e.x, e.y, e.w, EnemyH)

\* Player.update: the branch taken for an enemy hit while not attacking.
KnockContact(p, e) ==
    IF KnockHits(p, e) /\ ~p.attacking
    THEN [p EXCEPT !.x = p.x - p.dir * Knockback, !.vel_y = 0,
                   !.on_ground = FALSE]
    ELSE p

InitKnock ==
    /\ pc = "contact"
    /\ \E pw \in KnockPlayerWs, ew \in KnockEnemyWs, d \in {-1, 1},
          depth \in 1 .. FinSpeed + FinEnemySpeed, left \in BOOLEAN :
       \E ex \in {ScreenW} :
       \E px \in {IF left THEN ex - pw + depth ELSE ex + ew - depth} :
          /\ variant = "final"
          /\ keys = NoKeys
          /\ player = [x |-> px, y |-> FinGroundY - PlayerH, vel_y |-> 0,
                       on_ground |-> TRUE, vel_x |-> 0, dir |-> d,
                       attacking |-> FALSE, attack_timer |-> 0, w |-> pw]
          /\ platforms = <<>>
          /\ coins = <<>>
          /\ enemies = <<[x |-> ex, y |-> FinGroundY - EnemyH, dir |-> 1,
                          w |-> ew]>>
          /\ level_length = 0
          /\ current_level = 0
          /\ score = 0
          /\ lives = StartLives
          /\ game_over = FALSE
          /\ game_won = FALSE
          /\ offset_x = 0
          /\ spawn = [x |-> px, y |-> FinGroundY - PlayerH]
          /\ rng = <<>>
          /\ mid = NoMid
          /\ ev = NoEvent

\* Player.update: "Collide with enemies", for the one enemy.
KnockStep ==
    /\ pc = "contact"
    /\ pc' = "knocked"
    /\ player' = KnockContact(player, enemies[1])
    /\ lives' = IF KnockHits(player, enemies[1]) THEN lives - 1 ELSE lives
    /\ mid' = BodyMid(player)
    /\ ev' = [NoEvent EXCEPT !.acted = TRUE,
                             !.hit = KnockHits(player, enemies[1])]
    /\ UNCHANGED <<variant, keys, platforms, coins, enemies, level_length,
                   current_level, score, game_over, game_won, offset_x, spawn,
                   rng>>

SpecKnock == InitKnock /\ [][KnockStep]_vars

----------------------------------------------------------------------------
(* Properties.                                                             *)

Classic == variant \in {"full", "ultra"}

\* A step that is an active iteration of the loop of game_full.py or
\* game_ultra.py, and one of game_final.py.
ClassicFrame == Classic /\ pc' = "frame"
FinalFrame == variant = "final" /\ pc = "frame"

\* The platforms the body overlaps right after the vertical move.
PlatWidth == IF variant = "final" THEN FinPlatW ELSE PlatW
MidOverlaps(n) ==
    Collide(mid.x, mid.y, PlayerW, PlayerH,
            platforms[n].x, platforms[n].y, PlatWidth, PlatH)
Overlapped == {n \in 1 .. Len(platforms) : MidOverlaps(n)}

\* The player stands landed on platform n.
LandedOn(n) ==
    /\ player.y + PlayerH = platforms[n].y
    /\ player.vel_y = 0
    /\ player.on_ground

\* C1 as stated: after a frame of game_ultra or game_final in which the
\* player's vel_y after gravity is > 0, for every platform P its rect overlaps
\* after the vertical move, the vertical pass ends with bottom == P.top,
\* vel_y == 0 and on_ground.  It fails when two overlapped platforms have
\* different tops.
C1_LandsOnEveryOverlapped ==
    (pc = "body" /\ mid.set /\ mid.vel_y > 0) => \A n \in Overlapped : LandedOn(n)

\* C1, amended: if vel_y after gravity is > 0 and the rect overlaps at least
\* one platform after the vertical move, the vertical pass ends with vel_y == 0,
\* on_ground and bottom == the top of the first overlapped platform in
\* iteration order.
C1_LandsOnFirstOverlapped ==
    (pc = "body" /\ mid.set /\ mid.vel_y > 0 /\ Overlapped # {})
        => LandedOn(CHOOSE n \in Overlapped : \A m \in Overlapped : n <= m)

\* C1 witness: a falling body that overlapped two platforms with different
\* tops after its vertical move.
C1_Witness ==
    /\ pc = "body" /\ mid.set /\ mid.vel_y > 0
    /\ \E n, m \in Overlapped : platforms[n].y # platforms[m].y

\* The player is at rest on a platform: bottom == platform.top, horizontal
\* overlap, vel_y == 0 and on_ground.
Resting ==
    /\ player.on_ground
    /\ player.vel_y = 0
    /\ \E n \in 1 .. Len(platforms) :
          /\ player.y + PlayerH = platforms[n].y
          /\ player.x + PlayerW > platforms[n].x
          /\ player.x < platforms[n].x + PlatWidth

\* C2 as stated: in game_ultra and game_final, a player at rest on a platform
\* that receives no input has on_ground == true at the end of the frame (and
\* so of every subsequent frame).
C2_RestingStaysGrounded ==
    [][(pc = "body" /\ Resting /\ keys' = NoKeys) => player'.on_ground]_vars

\* C3 as stated: in game_final, a frame in which the player with lives == 1
\* overlaps a live enemy while not attacking ends with lives == 0 and
\* game_over true; lives never becomes negative.
C3_LastLifeEndsGame ==
    [][/\ (FinalFrame /\ lives = 1 /\ ev'.hit) => (lives' = 0 /\ game_over')
       /\ (variant = "final" => lives' >= 0)]_vars

\* C4: in game_full and game_ultra, at the end of every frame 0 <= lives <= 3
\* and game_over is true iff lives == 0; within one frame lives never
\* increases and decreases by at most 1.
C4_Lives ==
    /\ [](Classic => /\ 0 <= lives
                     /\ lives <= StartLives
                     /\ (game_over <=> lives = 0))
    /\ [][Classic => lives' <= lives /\ lives' >= lives - 1]_vars

\* C4 witness: the last life was lost by falling out of the level.
C4_Witness == Classic /\ ev.fell /\ lives = 0 /\ game_over

\* C5: in the three scripts the level index is incremented in a frame iff no
\* live coin is left at that frame's completion check, it moves by exactly 1,
\* and every level loaded (at start, on restart or on advancing) has at least
\* one coin.
C5_LevelAdvance ==
    /\ [](pc = "frame" /\ ~ev.acted => Len(coins) >= 1)
    /\ [][(ClassicFrame \/ FinalFrame) =>
              /\ (current_level' = current_level + 1
                    <=> Len(coins) - ev'.collected = 0)
              /\ current_level' \in {current_level, current_level + 1}
              /\ (ev'.loaded => Len(coins') >= 1)]_vars

\* C5 witness: a frame collected the last coin of level 0 and loaded level 1.
C5_Witness == ev.checked /\ ev.loaded /\ current_level = 1 /\ Len(coins) >= 1

\* The coins generate_levels gives level i, and those of the levels below i.
GenCoins(i) ==
    IF variant = "ultra" THEN Len(UGenLevel(i).coins) ELSE Len(FGenLevel(i).coins)

RECURSIVE CoinsBelow(_)
CoinsBelow(i) == IF i <= 0 THEN 0 ELSE GenCoins(i - 1) + CoinsBelow(i - 1)

\* C6: in game_full and game_ultra, at the end of every frame score equals
\* the number of coins removed from the live lists since the session started:
\* all coins of the completed levels plus those missing from the current one.
C6_ScoreCountsCoins ==
    Classic =>
        score = CoinsBelow(current_level)
                + (IF current_level < NumLevels
                   THEN GenCoins(current_level) - Len(coins) ELSE 0)

\* C6 witness: the game was completed with the coins of two levels scored.
C6_Witness == Classic /\ game_won /\ score >= 2

InPatrol(e) == e.min_x <= e.x /\ e.x <= e.max_x

\* C7 as stated: for any platform and enemy widths, every enemy placed by
\* generate_levels has min_x <= rect.x <= max_x at load and after any number
\* of Enemy.update calls.  It fails for an enemy image wider than the
\* platform image (max_x < min_x).
C7_PatrolAnyWidths ==
    pc = "patrol" => \A n \in 1 .. Len(enemies) : InPatrol(enemies[n])

\* C7, amended: the same for enemies no wider than their platform, that is
\* with min_x <= max_x (max_x - min_x is platform width - enemy width).
C7_PatrolFittingWidths ==
    pc = "patrol" =>
        \A n \in 1 .. Len(enemies) :
            enemies[n].min_x <= enemies[n].max_x => InPatrol(enemies[n])

\* C7 witness: an enemy has turned around at max_x.
C7_Witness ==
    /\ pc = "patrol"
    /\ \E n \in 1 .. Len(enemies) :
          /\ enemies[n].min_x < enemies[n].max_x
          /\ enemies[n].speed < 0
          /\ enemies[n].x = enemies[n].max_x

InRange(o, length) == 0 <= o /\ o <= Max(0, length - ScreenW)

\* C8: the camera offset a frame computes lies in
\* [0, max(0, world_length - screen_width)].  game_full and game_ultra compute
\* it last in the frame, from the length then loaded; game_final computes it
\* first, from the world_width the frame starts with.
C8_CameraInRange ==
    /\ [](Classic => InRange(offset_x, level_length))
    /\ [][FinalFrame => InRange(offset_x', level_length)]_vars

\* C8 witness: the player of game_ultra is at or beyond the world's right
\* edge and the camera is at its right end.
C8_Witness ==
    /\ variant = "ultra"
    /\ player.x >= level_length
    /\ offset_x = level_length - ScreenW

\* C9: a frame that begins with game_over or game_won/game_completed true
\* leaves the simulation state unchanged, unless it is the restart (R on the
\* screens of game_final).
C9_TerminalFramesFrozen ==
    [][((game_over \/ game_won) /\ ~(variant = "final" /\ pc' = "frame"))
          => UNCHANGED <<player, score, lives, current_level, coins, enemies,
                         platforms, offset_x>>]_vars

\* C9 witness: an iteration ran with game_over set.
C9_Witness == pc = "idle" /\ game_over

\* C10: in game_final, R on the game-over or the win screen leads to
\* level_index == 0 with level 0's platforms, coins and enemies loaded,
\* lives == 3, score == 0, both flags false, and the loop running again.
C10_RestartResets ==
    [][(variant = "final" /\ pc \in FinScreens /\ pc' \notin FinScreens \cup {"exit"})
          => /\ pc' = "frame"
             /\ current_level' = 0
             /\ platforms' = FinLoadLevel(rng, 0).platforms
             /\ coins' = FinLoadLevel(rng, 0).coins
             /\ enemies' = FinLoadLevel(rng, 0).enemies
             /\ lives' = StartLives
             /\ score' = 0
             /\ ~game_over'
             /\ ~game_won']_vars

\* C10 witness: the game was restarted from a screen.
C10_Witness == variant = "final" /\ pc = "frame" /\ ev.restart

\* A step that is an iteration of the loop of game_final.py with the keys
\* recorded, and whether the player is attacking when Player.update runs.
AttackFrame == variant = "final" /\ pc = "attack"
AttackingInUpdate == player.attacking \/ keys'.f

\* C11 as stated: in game_final, in every frame during which attacking is
\* true, the horizontal displacement applied by Player.update is 0, whatever
\* movement keys are or were held.
C11_NoMoveWhileAttacking ==
    [][(AttackFrame /\ AttackingInUpdate) => mid'.x = player.x]_vars

\* C12: in game_final, an attack triggered while attacking is false sets
\* attack_timer to ATTACK_DURATION, so that the update of that frame leaves
\* ATTACK_DURATION - 1; every update during the attack lowers the timer by
\* exactly 1 whatever keys are held (F included); no attack starts without F;
\* and at every frame end attacking is true iff attack_timer > 0.  Hence
\* attacking is true in exactly ATTACK_DURATION consecutive updates and false
\* at the end of the last one.
C12_AttackWindow ==
    /\ [](variant = "final" => /\ player.attacking <=> player.attack_timer > 0
                               /\ player.attack_timer >= 0
                               /\ player.attack_timer < AttackDuration)
    /\ [][AttackFrame =>
             /\ (~player.attacking /\ keys'.f)
                   => player'.attack_timer = AttackDuration - 1
             /\ player.attacking
                   => player'.attack_timer = player.attack_timer - 1
             /\ (~player.attacking /\ ~keys'.f) => ~player'.attacking]_vars

\* C12 witness: the last update of an attack ran with F held, and the attack
\* ended.
C12_Witness ==
    /\ AttackFrame /\ mid.set /\ keys.f
    /\ ~player.attacking /\ player.attack_timer = 0

\* The enemies the player overlaps at the enemy-contact step of the frame.
BodyInUpdate == FinBody(FinHandleInput(player, keys'), platforms)
Struck == {n \in 1 .. Len(enemies) : FinHitsEnemy(BodyInUpdate, enemies[n])}

\* C13: in game_final, in a frame where the player overlaps live enemies while
\* attacking, every overlapped enemy is removed from the enemies and the
\* enemy-contact step changes neither lives nor the player's position nor
\* vel_y: after Player.update they are what the collision passes left.
C13_AttackKillsAll ==
    [][(AttackFrame /\ AttackingInUpdate /\ Struck # {}) =>
          /\ ev'.killed = Cardinality(Struck)
          /\ ~ev'.loaded => Len(enemies') = Len(enemies) - Cardinality(Struck)
          /\ ~ev'.hit
          /\ (~ev'.fell /\ ~ev'.loaded) => lives' = lives
          /\ mid'.x = BodyInUpdate.x
          /\ mid'.y = BodyInUpdate.y
          /\ mid'.vel_y = BodyInUpdate.vel_y]_vars

\* C13 witness: an attacking player removed two enemies in one frame and was
\* neither hurt nor moved to a spawn point.
C13_Witness ==
    /\ AttackFrame /\ mid.set
    /\ player.attacking
    /\ ev.killed >= 2 /\ Len(enemies) = 0
    /\ ~ev.hit /\ ~ev.fell /\ ~ev.loaded

\* The spawn position of the level now loaded (game_full.py, game_ultra.py).
LevelSpawn == IF variant = "ultra" THEN USpawn(platforms) ELSE FSpawn

\* C14: in game_full and game_ultra, in a frame where the fall-off check fires
\* (player.rect.y > screen_height + 300) lives decreases by exactly 1, the
\* player ends at the current level's spawn position with vel_y == 0, and
\* game_over becomes true iff lives is then 0.
C14_FallOffRespawns ==
    [][(ClassicFrame /\ ev'.fell) =>
          /\ lives' = lives - 1
          /\ player'.x = LevelSpawn'.x
          /\ player'.y = LevelSpawn'.y
          /\ player'.vel_y = 0
          /\ game_over' <=> lives' = 0]_vars

\* C14 witness: the player of game_ultra fell out of level 1 and stands at that
\* level's spawn position with lives left.
C14_Witness ==
    /\ variant = "ultra" /\ pc = "frame"
    /\ ev.fell /\ current_level = 1 /\ lives > 0 /\ ~game_over
    /\ player.x = LevelSpawn.x /\ player.y = LevelSpawn.y

\* C15 as stated: in game_final, after a fall-off respawn the player's position
\* equals the spawn position load_level assigned for the current level,
\* whatever frames were simulated in between.
C15_RespawnAtLevelSpawn ==
    [][(FinalFrame /\ ev'.fell) =>
          player'.x = spawn'.x /\ player'.y = spawn'.y]_vars

\* C17 as stated: in game_final, between a level load and the next level load
\* no platform's rect changes, so that the rectangles the player's rect is
\* tested against are, in every frame, those load_level created.
C17_PlatformsFixed ==
    [][(FinalFrame /\ ~ev'.loaded) => platforms' = platforms]_vars

\* The player of game.py stands on a platform: bottom == platform.top with
\* horizontal overlap.
BasicStanding ==
    \E n \in 1 .. Len(platforms) :
        /\ player.y + PlayerH = platforms[n].y
        /\ player.x + PlayerW > platforms[n].x
        /\ player.x < platforms[n].x + PlatW

\* C16 as stated: in game.py a jump (vel_y set to -15, so that the vertical
\* move of the frame is made with vel_y = -15 + 0.5) only starts in a frame
\* where the player is standing on a platform; after walking off an edge the
\* player cannot jump while airborne.
C16_JumpOnlyFromPlatform ==
    [][(pc = "basic" /\ mid'.vel_y = BasicJumpVel + Gravity) => BasicStanding]_vars

\* The states the random module can be in when load_level is entered: any of
\* the program's seeds, with any number of values drawn since.
GeneratorStates ==
    {[rng EXCEPT !.seed = s, !.used = u] :
        s \in DOMAIN rng.stream, u \in 0 .. 2 * Len(rng.stream[0])}

\* What generate_levels yields for level idx in game_full.py / game_ultra.py.
ClassicLevel(idx) == IF variant = "ultra" THEN ULoadLevel(idx) ELSE FLoadLevel(idx)

\* C18: level generation is deterministic.  In game_final.py every load of a
\* level index (the advance to the next level, the restart at level 0) leaves
\* the platforms, the coins and the enemies with their initial directions
\* that a load of the same index yields from any other state of the random
\* module; in game_full.py and game_ultra.py every load leaves the lists
\* that generate_levels yields for that index.
C18_LoadsRepeat ==
    [][/\ (variant = "final" /\ (ev'.loaded \/ ev'.restart)) =>
            \A s \in GeneratorStates :
                /\ platforms' = FinLoadLevel(s, current_level').platforms
                /\ coins' = FinLoadLevel(s, current_level').coins
                /\ enemies' = FinLoadLevel(s, current_level').enemies
       /\ (Classic /\ ev'.loaded) =>
                /\ platforms' = ClassicLevel(current_level').platforms
                /\ coins' = ClassicLevel(current_level').coins
                /\ enemies' = ClassicLevel(current_level').enemies]_vars

\* Level 0 of game_final.py has been loaded a second time, by a restart from
\* the win screen, when the random module was last seeded for level 1.
C18_Witness ==
    /\ variant = "final"
    /\ ev.restart
    /\ current_level = 0
    /\ Len(enemies) = FinEnemyBase
    /\ enemies[1].dir = -1
    /\ rng.seed = FinEnemySeed

\* The closed forms of the level length and of the platform count.
LevelLength(i) ==
    IF variant = "ultra" THEN ULenBase + ULenInc * i ELSE FLenBase + FLenInc * i
PlatCount(i) ==
    IF variant = "ultra" THEN UPlatBase + i \div 3 ELSE FPlatBase + i \div 2

\* The positions j of the platforms that carry a coin / an enemy.
CoinSlots == {j \in 0 .. Len(platforms) - 1 : j % 2 = 0}
EnemySlots ==
    {j \in 0 .. Len(platforms) - 1 : j % (IF variant = "ultra" THEN 4 ELSE 3) = 1}

\* Coin c is centred above platform p; enemy tuple e stands on platform p.
CoinOn(c, p) ==
    c.x = p.x + (PlatW - CoinW) \div 2 /\ c.y = p.y - CoinH - CoinGap
EnemyOn(e, p) == e.min_x = p.x /\ e.py = p.y

UpSteps ==
    {platforms[m].y - platforms[m + 1].y : m \in 1 .. Len(platforms) - 1}

\* C20: for every generated level and every pair of consecutive platforms the
\* upward height difference to the next platform is at most 40 (game_full.py)
\* or 30 (game_ultra.py), and at most the height the player's rect has risen
\* from its start when a jump (speed -12, gravity 0.5 a frame, integer rect
\* positions) stops rising.
C20_StepsJumpable ==
    /\ [](pc = "jump" =>
            \A d \in UpSteps : d <= IF variant = "ultra" THEN URise ELSE FRise)
    /\ [][(pc = "jump" /\ player.vel_y < 0 /\ player'.vel_y >= 0) =>
            \A d \in UpSteps : d <= spawn.y - player.y]_vars

\* A jump in the last level of game_full.py is over: the player stands again
\* where it started, on a platform whose neighbour is a full step higher.
C20_Witness ==
    /\ pc = "jump"
    /\ variant = "full"
    /\ current_level = GenCount - 1
    /\ mid.set
    /\ player.on_ground
    /\ player.y = spawn.y
    /\ FRise \in UpSteps

\* clamp(player.center.x - screen_width / 2, 0, max(0, world_length -
\* screen_width)) on the player as it stands.
CameraTarget ==
    Max(0, Min(player.x + PlayerW \div 2 - ScreenW \div 2,
               Max(0, level_length - ScreenW)))

\* C21: at the end of every active frame of game_final.py, game_full.py and
\* game_ultra.py the camera offset is the clamped distance of the player's
\* centre from the middle of the screen, taken on the player as the frame
\* leaves it.
C21_CameraTracksPlayer ==
    [][(ClassicFrame \/ FinalFrame) => offset_x' = CameraTarget']_vars

\* The player and the enemies of game_full.py / game_ultra.py as the contact
\* checks of a frame find them, for the keys k sampled in that frame.
ClassicBody(k) ==
    IF variant = "ultra"
    THEN UUpdate(UHandleInput(player, k), platforms, UInputDx(k))
    ELSE FUpdate(FMoveX(FHandleInput(player, k), FInputDx(k), level_length),
                 platforms)
ClassicEnemies ==
    [n \in 1 .. Len(enemies) |->
        IF variant = "ultra" THEN UEnemyUpdate(enemies[n])
        ELSE FEnemyUpdate(enemies[n])]
ClassicContacts(g) == IF variant = "ultra" THEN UContacts(g) ELSE FContacts(g)

\* C22: in game_full.py and game_ultra.py, in a frame where the player's rect
\* overlaps at least one enemy, lives decreases by exactly 1 however many
\* enemies overlap (here: every enemy taken twice), and the contact checks
\* hand the player at the level's start position with vel_y = 0 to the
\* level-complete and fall-off checks; the frame ends with one life less and
\* the player at the start position of the level then loaded.
C22_EnemyContactCostsOneLife ==
    /\ []((Classic /\ Active) =>
            \A k \in MoveKeys :
                LET b == ClassicBody(k)
                    es == ClassicEnemies
                    g == ClassicContacts([Game EXCEPT !.player = b,
                                                      !.enemies = es \o es])
                IN  (\E n \in 1 .. Len(es) : HitsEnemy(b, es[n])) =>
                        /\ g.lives = lives - 1
                        /\ g.player.x = LevelSpawn.x
                        /\ g.player.y = LevelSpawn.y
                        /\ g.player.vel_y = 0)
    /\ [][(ClassicFrame /\ ev'.hit) =>
            /\ lives' = lives - 1
            /\ player'.x = LevelSpawn'.x
            /\ player'.y = LevelSpawn'.y
            /\ player'.vel_y = 0]_vars

\* The player of game_full.py ran into an enemy for the first time and stands
\* at the start position with two lives.
C22_Witness ==
    /\ variant = "full" /\ pc = "frame"
    /\ ev.hit /\ ~ev.fell /\ ~ev.loaded
    /\ lives = StartLives - 1
    /\ player.x = LevelSpawn.x /\ player.y = LevelSpawn.y

\* The horizontal distance between the centres of two rects.
CentreGap(p, e) ==
    LET d == (p.x + p.w \div 2) - (e.x + e.w \div 2)
    IN  IF d >= 0 THEN d ELSE -d

\* C23: in game_final.py, after a contact with an enemy while not attacking,
\* the horizontal distance between the player's centre and the enemy's centre
\* is greater after the knockback of 20 than it was at the contact, for every
\* relative position and facing direction.
C23_KnockbackMovesAway ==
    [][(pc = "contact" /\ ev'.hit) =>
          CentreGap(player', enemies[1]) > CentreGap(player, enemies[1])]_vars

\* game_full.py / game_ultra.py: the loop's variables after a frame whose
\* stages run in the order physics and collision, patrol, contacts, camera,
\* level-complete and fall-off evaluation, for the keys k.
ClassicInOrder(k) ==
    LET g1 == [Game EXCEPT !.player = ClassicBody(k), !.enemies = ClassicEnemies]
        g2 == ClassicContacts(g1)
        g3 == IF variant = "ultra" THEN UCameraStep(g2) ELSE FCameraStep(g2)
        g4 == IF variant = "ultra" THEN UAdvance(g3) ELSE FAdvance(g3)
    IN  IF variant = "ultra" THEN UFallOff(g4) ELSE FFallOff(g4)

\* The variables a frame leaves are those of the record r.
Leaves(r) ==
    /\ player' = r.player /\ platforms' = r.platforms /\ coins' = r.coins
    /\ enemies' = r.enemies /\ level_length' = r.length
    /\ current_level' = r.level /\ score' = r.score /\ lives' = r.lives
    /\ game_over' = r.game_over /\ game_won' = r.game_won
    /\ spawn' = r.spawn /\ offset_x' = r.offset

\* game_final.py: the enemies as their update of this frame leaves them.
EnemiesInUpdate ==
    [n \in 1 .. Len(enemies) |->
        FinEnemyUpdate(enemies[n], platforms, offset_x' - offset_x)]

\* C24: within every active frame the stages run once each in the order
\* player physics and platform collision, enemy patrol, coin and enemy
\* contacts, camera, level-complete / game-over / game-won evaluation.  In
\* game_final.py the contact is therefore decided on the enemies as this
\* frame's patrol update leaves them, and the camera is taken from the player
\* as the contacts leave it; in game_full.py and game_ultra.py the frame
\* leaves what the stages yield in that order.
C24_StagesInOrder ==
    /\ [][AttackFrame =>
            /\ (ev'.hit \/ ev'.killed > 0) <=>
                  \E n \in 1 .. Len(enemies) :
                      FinHitsEnemy(BodyInUpdate, EnemiesInUpdate[n])
            /\ (~ev'.loaded /\ ~ev'.fell) =>
                  offset_x' = FinCameraX(player', level_length)]_vars
    /\ [][ClassicFrame => \E k \in MoveKeys : Leaves(ClassicInOrder(k))]_vars

\* game_full.py: the player after the horizontal move of a frame with keys k.
FMoved(k) == FMoveX(FHandleInput(player, k), FInputDx(k), level_length)

\* C25: in game_full.py, after the horizontal move by dx # 0 the leading edge
\* of the player is on the trailing edge of every platform the rect then
\* overlaps: right on the platform's left for dx > 0, left on the platform's
\* right for dx < 0.
C25_SideClamped ==
    (variant = "full" /\ pc \in {"frame", "idle"} /\ Active) =>
        \A k \in MoveKeys : \A n \in 1 .. Len(platforms) :
            (FInputDx(k) # 0 /\ HitsPlat(FMoved(k), platforms[n])) =>
                IF FInputDx(k) > 0
                THEN FMoved(k).x + PlayerW = platforms[n].x
                ELSE FMoved(k).x = platforms[n].x + PlatW

\* game_ultra.py: the loop's variables after a frame in which no key is held.
UStill ==
    LET g1 == [Game EXCEPT !.player = UUpdate(UHandleInput(player, NoKeys),
                                                platforms, UInputDx(NoKeys)),
                           !.enemies = [n \in 1 .. Len(enemies) |->
                                           UEnemyUpdate(enemies[n])]]
    IN  UCameraStep(UFallOff(UAdvance(UContacts(g1))))

\* The body p is as reset_position(sp.x, sp.y) left it, or as a frame without
\* input leaves such a body.
AtSpawn(p, sp) ==
    /\ p.x = sp.x
    /\ p.y = sp.y
    /\ \/ p.vel_y = 0 /\ p.on_ground
       \/ p.vel_y = Gravity /\ ~p.on_ground

\* C26: in game_ultra.py a player that reset_position put on the spawn point
\* stays planted while no key is held: every such frame ends with the player
\* as a reset or an earlier idle frame leaves it, its bottom on the top of the
\* first platform and its x unchanged.
C26_StaysPlanted ==
    (variant = "ultra" /\ pc \in {"frame", "idle"} /\ Active
        /\ AtSpawn(player, spawn)) =>
        /\ AtSpawn(UStill.player, UStill.spawn)
        /\ UStill.player.y + PlayerH = UStill.platforms[1].y
        /\ UStill.level = current_level => UStill.player.x = player.x

\* A respawn has happened and a frame without input has followed it.
C26_Witness ==
    /\ variant = "ultra" /\ pc = "frame" /\ Active
    /\ lives < StartLives
    /\ ~ev.hit /\ ~ev.fell /\ ~ev.loaded
    /\ AtSpawn(player, spawn) /\ player.vel_y = Gravity

\* The position Enemy.update moves the enemy e to, before the range test.
PatrolMoved(e) == AddTenths(e.x, e.speed)

\* The moved position of e is outside [min_x, max_x].
PastRange(e) == PatrolMoved(e) < e.min_x \/ PatrolMoved(e) > e.max_x

\* The enemies of level 0 stand on platforms of their own.
PatrolEnemies ==
    1 .. Max(Len(ULoadLevel(0).platforms), Len(FLoadLevel(0).platforms))

\* The update of this step reverses enemy n.
Reverses(n) ==
    /\ n <= Len(enemies)
    /\ enemies'[n].speed = -enemies[n].speed

\* The update of this step moves enemy n.
Moves(n) ==
    /\ n <= Len(enemies)
    /\ enemies'[n].x # enemies[n].x

\* Enemy n has no room to walk: its image is as wide as its platform or wider.
NoRoom(n) == n > Len(enemies) \/ enemies[n].min_x >= enemies[n].max_x

C28_VelocityBounded ==
    pc \in {"frame", "idle", "exit"} =>
        JumpVel <= player.vel_y /\ player.vel_y <= MaxFall

\* The player of main.py falls at the capped speed.
C28_Witness == variant = "main" /\ pc = "frame" /\ player.vel_y = MaxFall

LevelCount == IF variant = "enhanced" THEN Len(EnhLevels) ELSE NumLevels

\* The script has left its level loop for good or shows its end screen.
Finished == game_won \/ pc = "exit"

\* C30: in game_enhanced.py, game_full.py, game_ultra.py and game_final.py
\* the level index is between 0 and len(levels), it is len(levels) only
\* when the game is completed or won or the loop has stopped, and levels is
\* never indexed with len(levels) or more: no IndexError, and every load
\* leaves an index below len(levels).
C30_IndexInRange ==
    /\ [](/\ 0 <= current_level /\ current_level <= LevelCount
          /\ current_level = LevelCount => Finished
          /\ pc # "crash")
    /\ [][(ev'.loaded \/ ev'.restart) => current_level' < LevelCount]_vars

\* game_enhanced.py has finished its last level: the index is len(levels) and
\* the loop has stopped.
C30_Witness ==
    /\ variant = "enhanced" /\ pc = "exit"
    /\ current_level = Len(EnhLevels)
    /\ Len(coins) = 0

\* C31: in game_ultra.py, for platforms that do not overlap each other and a
\* player that starts the frame overlapping none of them, the player's rect
\* overlaps no platform at the end of Player.update, whatever the keys and
\* the vertical speed.
C31_StaysOutside == pc = "updated" => Outside(player, platforms)

\* C32: in generate_levels of game_full.py and game_ultra.py, for every level
\* index 0 .. 29 every platform origin x and every coin origin x is at least
\* 0 and below the level's length.
C32_ContentInsideWorld ==
    pc = "world" =>
        /\ \A n \in 1 .. Len(platforms) :
              0 <= platforms[n].x /\ platforms[n].x < level_length
        /\ \A n \in 1 .. Len(coins) :
              0 <= coins[n].x /\ coins[n].x < level_length

\* Player and coin image widths the reach of the player is checked for.
WorldPlayerWs == {32, 64}
WorldCoinWs == {16, 32}

\* main (game_full.py): some x the clamp "0 <= rect.x <= level_length -
\* rect.width" allows puts a player pw wide over the columns of the coin c.
Touchable(c, pw, cw) ==
    \E px \in 0 .. level_length - pw : px < c.x + cw /\ px + pw > c.x

\* C33: every generated level of game_full.py can be completed: from the
\* state right after the load some sequence of inputs empties the coin list,
\* the player's x being clamped to [0, level_length - player width] in every
\* frame.  A completed level has had each of its coins overlapped by the
\* player, so every coin of every level 0 .. 29 is over columns the clamped
\* player can stand in.
C33_LevelsCompletable ==
    (pc = "world" /\ variant = "full") =>
        \A pw \in WorldPlayerWs, cw \in WorldCoinWs, n \in 1 .. Len(coins) :
            Touchable(coins[n], pw, cw)

\* C34: in game_final.py every load_level (the first, the advance to the
\* next level, the restart) leaves lives 3 and score 0, and between two loads
\* the score grows by exactly the coins taken: score plus the live coins is
\* the number of coins the level was loaded with, so the score never exceeds
\* it and lives lost in a level are not carried into the next.
C34_LoadResetsScoreAndLives ==
    /\ [](variant = "final" => 0 <= score)
    /\ [][(variant = "final" /\ (ev'.loaded \/ ev'.restart)) =>
            /\ lives' = StartLives
            /\ score' = 0]_vars
    /\ [][(FinalFrame /\ ~ev'.loaded) =>
            score' + Len(coins') = score + Len(coins)]_vars

\* The second level has just been loaded: three lives, no score.
C34_Witness ==
    /\ variant = "final" /\ pc = "frame"
    /\ ev.loaded /\ current_level = 1
    /\ lives = StartLives /\ score = 0

\* The frames of the loop after which F has been held since it was first held.
ShieldFrame == variant = "final" /\ pc' = "shield"

\* C35: in game_final, while the attack key is held in every frame,
\* attacking is true when Player.update reaches its enemy-contact check (a
\* window that expired at the end of the previous update is started again by
\* handle_input before the next one), so enemy contact never reduces lives.
C35_HeldAttackShields ==
    [][ShieldFrame =>
          /\ FinHandleInput(player, keys').attacking
          /\ FinHandleInput(player, keys').attack_timer > 0
          /\ ~ev'.hit
          /\ (~ev'.fell /\ ~ev'.loaded) => lives' = lives]_vars

\* C35 witness: the attack started anew in this frame with F held, the
\* player overlapped an enemy, the enemy was removed and no life was lost.
C35_Witness ==
    /\ variant = "final" /\ pc = "shield" /\ mid.set /\ keys.f
    /\ player.attack_timer = AttackDuration - 1
    /\ ev.killed >= 1 /\ ~ev.hit
    /\ ~ev.fell /\ ~ev.loaded /\ lives > 0

\* A frame of game.py.
BasicLoop == variant = "basic" /\ pc = "basic"

\* C36: in game.py, at the end of every frame score plus the number of live
\* coins is 3: a frame without a fall adds to the score exactly the coins it
\* removes, and a frame in which the player falls below the screen ends with
\* the three coins restored and the score 0.
C36_ScorePlusCoins ==
    /\ [](variant = "basic" => score + Len(coins) = 3)
    /\ [][BasicLoop =>
            /\ ev'.fell => (coins' = BasicCoins /\ score' = 0)
            /\ ~ev'.fell => /\ score' = score + ev'.collected
                            /\ Len(coins') = Len(coins) - ev'.collected
                            /\ score' >= score]_vars

\* C36 witness: a coin has been collected and two are left.
C36_Witness ==
    /\ BasicLoop /\ mid.set
    /\ ev.collected = 1 /\ ~ev.fell
    /\ score = 1 /\ Len(coins) = 2
====
